---- MODULE Spec2Model ----
(***************************************************************************)
(* State-machine model of the AFK supervisor's Session Manager             *)
(* (afk/core/session_manager.py) together with the parts of the workspace  *)
(* protocol (afk/core/git_worktree.py), the streaming agent adapter        *)
(* (afk/adapters/claude_code/agent.py), the tunnel capability's cleanup    *)
(* callback and the command facade it depends on.                          *)
(*                                                                         *)
(* Scheduling.  The program is single-threaded asyncio: a coroutine runs   *)
(* without interruption from one await that really suspends to the next.   *)
(* Every action below is one such run.  task.cancel() places the wake-up   *)
(* of the cancelled reader on the loop's ready queue, so the reader        *)
(* handles the cancellation before any coroutine that suspends afterwards  *)
(* is resumed; callbacks that were already on the ready queue (handlers    *)
(* of requests that arrived in the same loop iteration) may still run in   *)
(* between.  Likewise every coroutine awaiting agent.stop() of one agent   *)
(* is woken in the loop iteration in which the process is found gone, so   *)
(* all of them run before any coroutine that waits for something else      *)
(* is resumed.  Hence: continuation actions are guarded by ~WakePending,   *)
(* entry actions are not.                                                  *)
(***************************************************************************)
EXTENDS Integers, Sequences, FiniteSets, TLC

(***************************************************************************)
(* Bounds                                                                  *)
(***************************************************************************)
MaxTick == 1       \* the UTC clock shows seconds 0..MaxTick
MaxRuns == 2       \* supervisor processes started one after the other
MaxCount == 2      \* history counters saturate here
MaxQueues == 2     \* asyncio.Queue objects created by one EventBus
MaxItems == 2      \* events waiting in one queue
MaxLog == 7        \* entries of the log while it is switched on
MaxBlocks == 2     \* content blocks of one assistant message
MaxLines == 2      \* lines of a PID file found at the first start

(***************************************************************************)
(* Universe                                                                *)
(***************************************************************************)
\* Channel ids. Chat topics are integer strings created by the messenger
\* (managed); web channels are "web:<hex>" ids supplied by the caller.
TopicChan == {"101"}
WebChan == {"web:a1"}
Chan == TopicChan \cup WebChan

ProjectName == "Proj"
ProjectPath == "/repo"
Sid == {"S1", "S2"}
Null == "null"
NoSession == [none |-> TRUE]
States == {"idle", "running", "waiting_permission", "stopped", "suspended"}
Templates == {Null, "tpl"}
Clock == 0..MaxTick

Min(a, b) == IF a < b THEN a ELSE b
Bump(n) == Min(n + 1, MaxCount)
Lower(s) ==
    CASE s = "Proj" -> "proj"
      [] s \in {"App", "APP"} -> "app"
      [] OTHER -> s

\* session_name = f"{project_name.lower()}-{ts}"
SessionName(project_name, ts) == <<Lower(project_name), ts>>
\* the main working tree of the project, on branch main
MainWorktree == <<ProjectPath>>
MainBranch == <<"main">>
\* worktree_path = Path(project_path) / ".afk-worktrees" / session_name
WorktreePath(project_path, session_name) == <<project_path, ".afk-worktrees", session_name>>
\* Mutation of BranchName: the branch is named after the project alone.
BranchName_OfProject(session_name) == <<"afk", session_name[1]>>

\* branch_name = f"afk/{session_name}"
BranchName(session_name) == <<"afk", session_name>>

VARIABLES
    phase,       \* position of main(): "up", "suspend", "down", "recover", "cleanup"
    runs,        \* number of supervisor processes started so far
    now,         \* the wall clock, in seconds
    registered,  \* ProjectStore: is ProjectName registered
    sessions,    \* Session objects of this process, by channel id
    table,       \* SessionManager._sessions: channel ids in insertion order
    persisted,   \* sessions.json: sequence of records
    worktrees,   \* working trees that exist (MainWorktree and worktree directories)
    branchTip,   \* branch name -> set of commits reachable from the branch
    mainTip,     \* set of commits reachable from main
    topics,      \* chat topics that are open
    tunnels,     \* TunnelCapability._tunnels: channels with a tunnel
    used,        \* channel ids handed out so far (never reused)
    creating,    \* in-flight create_session call per channel id
    ops,         \* the stop_session / complete_session call of each handler
    susp,        \* suspend_all_sessions call of main()
    rec,         \* recover_sessions / cleanup_orphan_worktrees call of main()
    stoppedEv,   \* AgentStoppedEvent publications per channel since its
                 \* current reader task was created (saturating)
    cleanupRuns, \* _run_cleanup executions per channel, likewise
    subscribers, \* EventBus._subscribers: event type -> list of queues
    queues,      \* the asyncio.Queue objects created so far, by identity
    iters,       \* the iter_events generator of each consumer
    log,         \* Off, or the SessionManager's calls of write_raw,
                 \* event_bus.publish and agent.send_permission_response,
                 \* in call order
    tracker,     \* core.subprocess_tracker: _tracked_pids, _pid_file, the PID
                 \* file on disk, the child processes and the signals sent
    projects,    \* ProjectStore: _projects, projects.json, last return value
    codex        \* a CodexAgent object, its child processes, its reader
                 \* tasks and the send_message calls in flight

vars == <<phase, runs, now, registered, sessions, table, persisted, worktrees,
          branchTip, mainTip, topics, tunnels, used, creating, ops, susp, rec,
          stoppedEv, cleanupRuns, subscribers, queues, iters, log,
          tracker, projects, codex>>

busVars == <<subscribers, queues, iters>>

gitVars == <<worktrees, branchTip, mainTip>>

(***************************************************************************)
(* Helpers over the session table                                          *)
(***************************************************************************)
Range(s) == {s[i] : i \in 1..Len(s)}
InTable(c) == c \in Range(table)
RemoveFrom(s, c) == SelectSeq(s, LAMBDA x : x # c)
Live(c) == sessions[c] # NoSession

\* ClaudeCodeAgent.__init__
NewAgent == [alive |-> FALSE, proc |-> "none", sid |-> Null, wd |-> Null,
             resume |-> Null, turn |-> "quiet", entry |-> "claude"]

\* main(): the agent registry of a supervisor started with AFK_AGENT unset
\* and an OpenAI key, and the default agent name
AgentRegistry == {"claude", "deep-research"}
DefaultAgent == "claude"

\* cmd_new_session: a template that names an agent supplies the agent name
\* of the session when the command gave none
TemplateAgent(t) == IF t = "tpl" THEN "deep-research" ELSE Null

\* SessionManager._create_agent: the object built by the registry entry of
\* `agent_name or self._default_agent`, else by the legacy agent_factory
\* (main() passes the default agent's class)
CreateAgent(agent_name) ==
    LET name == IF agent_name # Null THEN agent_name ELSE DefaultAgent
    IN  [NewAgent EXCEPT !.entry = IF name \in AgentRegistry THEN name
                                   ELSE DefaultAgent]

\* ClaudeCodeAgent.is_alive
IsAlive(a) == a.alive /\ a.proc = "run"

\* ClaudeCodeAgent.start, the successful case
StartedAgent(a, working_dir, session_id) ==
    [a EXCEPT !.alive = TRUE, !.proc = "run", !.wd = working_dir,
              !.resume = session_id, !.turn = "quiet"]

\* A reader task has been cancelled and has not yet run its handler.
CancelPending ==
    \E c \in Chan : Live(c) /\ sessions[c].task \in {"cancelling", "cancelcleanup"}

\* Positions of a reader task (session.task): "run" (suspended in
\* read_responses), "cleanup" (suspended in _run_cleanup of the finally
\* block), "cancelling" and "cancelcleanup" (cancelled at one of these
\* points, handler not yet run), "done", and "none" when the session has no
\* task.  session.exit tells how the task left its loop: "none" (it has
\* not), "cancel" (CancelledError), "crash" (the stream ended or failed
\* while no stop, complete or suspend call was working on the session),
\* "raced" (the stream ended during such a call).

\* asyncio.Task.cancel() on session._response_task
CancelTask(t) ==
    CASE t = "run" -> "cancelling"
      [] t = "cleanup" -> "cancelcleanup"
      [] OTHER -> t

\* SessionManager._save_sessions: the record written for one session
SavedRecord(cid, s) ==
    [channel_id |-> s.channel_id, name |-> s.name,
     project_name |-> s.project_name, project_path |-> s.project_path,
     worktree_path |-> s.worktree_path,
     agent_session_id |-> IF s.agent.sid # Null THEN s.agent.sid ELSE s.agent_session_id,
     state |-> s.state, verbose |-> s.verbose,
     managed_channel |-> s.managed_channel,
     template_name |-> s.template_name, created_at |-> s.created_at,
     key |-> cid]

\* SessionManager._save_sessions: the whole file
SaveSessions(tbl, sess) == [i \in 1..Len(tbl) |-> SavedRecord(tbl[i], sess[tbl[i]])]

(***************************************************************************)
(* Facade calls in flight                                                  *)
(***************************************************************************)
\* Request handlers that can be inside stop_session / complete_session at
\* the same time: the chat update handler and a web request handler.
Call == {"chat", "web"}
Free == [kind |-> "free", pc |-> "free"]
Serving == phase \in {"up", "suspend"}

\* a stop_session or complete_session call for c, or suspend_all_sessions,
\* has started and not ended
InProgress(c) ==
    \/ \E i \in Call : ops[i].pc \notin {"free", "done"} /\ ops[i].chan = c
    \/ phase = "suspend"

\* A coroutine awaits agent.stop() of an agent whose process is gone: its
\* wake-up is on the ready queue.
StopWoken ==
    \/ \E i \in Call : ops[i].pc = "stop" /\ sessions[ops[i].chan].agent.proc # "run"
    \/ susp.pc = "stop" /\ sessions[susp.chan].agent.proc # "run"

\* Some wake-up is on the ready queue.
WakePending == CancelPending \/ StopWoken

(***************************************************************************)
(* Session Manager: _run_cleanup with the tunnel capability's callback.    *)
(* stop_tunnel pops the tunnel and awaits tunnel.stop() only when the      *)
(* channel has a tunnel; otherwise the callback returns without            *)
(* suspending.                                                             *)
(***************************************************************************)
CleanupSuspends(c) == c \in tunnels
TunnelsAfterCleanup(c) == tunnels \ {c}

(***************************************************************************)
(* EventBus (core/events.py) and the typed events of the Session Manager   *)
(***************************************************************************)
EvType == {"AgentSystemEvent", "AgentAssistantEvent",
           "AgentPermissionRequestEvent", "AgentResultEvent",
           "AgentInputRequestEvent", "AgentStoppedEvent"}

AgentSystemEvent(channel_id, agent_session_id) ==
    [type |-> "AgentSystemEvent", channel_id |-> channel_id,
     agent_session_id |-> agent_session_id, level |-> "INTERNAL"]

AgentStoppedEvent(channel_id, session_name) ==
    [type |-> "AgentStoppedEvent", channel_id |-> channel_id,
     session_name |-> session_name, level |-> "NOTIFY"]

AgentAssistantEvent(channel_id, content_blocks, session_name, level, verbose) ==
    [type |-> "AgentAssistantEvent", channel_id |-> channel_id,
     content_blocks |-> content_blocks, session_name |-> session_name,
     level |-> level, verbose |-> verbose]

AgentResultEvent(channel_id, cost_usd, duration_ms) ==
    [type |-> "AgentResultEvent", channel_id |-> channel_id,
     cost_usd |-> cost_usd, duration_ms |-> duration_ms, level |-> "NOTIFY"]

\* the keyword arguments of the two constructor calls in
\* _publish_agent_event (tool_input is carried along unread and left out)
AgentPermissionRequestEvent(channel_id, request_id, tool_name) ==
    [type |-> "AgentPermissionRequestEvent", channel_id |-> channel_id,
     request_id |-> request_id, tool_name |-> tool_name]

AgentInputRequestEvent(channel_id, session_name) ==
    [type |-> "AgentInputRequestEvent", channel_id |-> channel_id,
     session_name |-> session_name]

\* EventBus.__init__; a missing key of _subscribers reads as the empty list
NoSubscribers == [T \in EvType |-> <<>>]

\* the consumers that iterate with `async for ev in bus.iter_events(T)`
Consumers == {"r1"}
NoIters == [k \in Consumers |-> [pc |-> "idle", type |-> Null, q |-> 0]]

\* asyncio.Queue(maxsize): maxsize 0 is unbounded
NewQueue(maxsize) == [items |-> <<>>, maxsize |-> maxsize]
\* asyncio.Queue.full()
Full(q) == q.maxsize > 0 /\ Len(q.items) >= q.maxsize

\* Mutation of Publish: a full queue makes room by losing its oldest event.
Publish_DropsOldest(qs, ev) ==
    LET list == subscribers[ev.type]
    IN  [i \in 1..Len(qs) |->
            IF i \in Range(list)
            THEN [qs[i] EXCEPT !.items = IF Full(qs[i]) THEN Append(Tail(@), ev)
                                                        ELSE Append(@, ev)]
            ELSE qs[i]]

\* EventBus.publish(event): put_nowait on every queue subscribed to the
\* exact type of the event; QueueFull is caught and logged
Publish(qs, ev) ==
    LET list == subscribers[ev.type]
    IN  [i \in 1..Len(qs) |->
            IF i \in Range(list) /\ ~Full(qs[i])
            THEN [qs[i] EXCEPT !.items = Append(@, ev)]
            ELSE qs[i]]

\* successive event_bus.publish calls inside one synchronous stretch
RECURSIVE PublishAll(_, _)
PublishAll(qs, evs) ==
    IF evs = <<>> THEN qs ELSE PublishAll(Publish(qs, Head(evs)), Tail(evs))

\* the log when it is switched off: one entry that is no call
Off == <<[call |-> "off"]>>
\* one log entry per event_bus.publish(event) call
Published(evs) == [i \in 1..Len(evs) |-> [call |-> "publish", event |-> evs[i]]]
\* the log entry of agent.send_permission_response(request_id, allowed)
Responded(channel_id, request_id, allowed) ==
    [call |-> "send_permission_response", channel_id |-> channel_id,
     request_id |-> request_id, allowed |-> allowed]
\* the log entry of session._session_logger.write_raw(json.dumps(msg))
Wrote(channel_id, msg) ==
    [call |-> "write_raw", channel_id |-> channel_id, msg |-> msg]
Logged(entries) == IF log = Off THEN Off ELSE log \o entries

\* list.remove(x): the first occurrence goes
RECURSIVE RemoveFirst(_, _)
RemoveFirst(list, x) ==
    IF list = <<>> THEN <<>>
    ELSE IF Head(list) = x THEN Tail(list)
    ELSE <<Head(list)>> \o RemoveFirst(Tail(list), x)

\* EventBus.unsubscribe(event_type, queue): _subscribers afterwards
Unsubscribed(subs, T, q) ==
    IF q \in Range(subs[T]) THEN [subs EXCEPT ![T] = RemoveFirst(@, q)] ELSE subs

\* every queue subscribed to T can take one more event within the bound
Room(T) == \A i \in Range(subscribers[T]) : Len(queues[i].items) < MaxItems

sessionVars == <<phase, runs, now, registered, sessions, table, persisted,
                 worktrees, branchTip, mainTip, topics, tunnels, used,
                 creating, ops, susp, rec, stoppedEv, cleanupRuns, tracker,
                 projects, codex>>

\* EventBus.subscribe(event_type) called by a component that keeps the queue
Subscribe(T) ==
    /\ phase = "up" /\ Len(queues) < MaxQueues
    /\ queues' = Append(queues, NewQueue(0))
    /\ subscribers' = [subscribers EXCEPT ![T] = Append(@, Len(queues) + 1)]
    /\ UNCHANGED iters
    /\ UNCHANGED <<sessionVars, log>>

\* EventBus.unsubscribe(event_type, queue); q = 0 is a queue the bus has
\* never seen
Unsubscribe(T, q) ==
    /\ phase = "up" /\ q \in 0..Len(queues)
    /\ subscribers' = Unsubscribed(subscribers, T, q)
    /\ UNCHANGED <<queues, iters>>
    /\ UNCHANGED <<sessionVars, log>>

\* Mutation of PublishEvent: the event reaches the queues of every type.
PublishEvent_AnyType(ev) ==
    /\ phase = "up"
    /\ queues' = [i \in 1..Len(queues) |->
                    IF \E T \in EvType : i \in Range(subscribers[T])
                    THEN [queues[i] EXCEPT !.items = Append(@, ev)]
                    ELSE queues[i]]
    /\ UNCHANGED <<subscribers, iters>>
    /\ UNCHANGED <<sessionVars, log>>

\* EventBus.publish(event) called by any component
PublishEvent(ev) ==
    /\ phase = "up"
    /\ queues' = Publish(queues, ev)
    /\ UNCHANGED <<subscribers, iters>>
    /\ UNCHANGED <<sessionVars, log>>

\* the owner of a queue takes its first event (queue.get / get_nowait)
Get(q) ==
    /\ phase = "up" /\ q \in 1..Len(queues)
    /\ \A k \in Consumers : iters[k].q # q
    /\ queues[q].items # <<>>
    /\ queues' = [queues EXCEPT ![q].items = Tail(@)]
    /\ UNCHANGED <<subscribers, iters>>
    /\ UNCHANGED <<sessionVars, log>>

\* test_queue_full_logs_warning: the subscriber list of T is replaced by one
\* queue of bounded size
InstallBounded(T, maxsize) ==
    /\ phase = "up" /\ Len(queues) < MaxQueues
    /\ queues' = Append(queues, NewQueue(maxsize))
    /\ subscribers' = [subscribers EXCEPT ![T] = <<Len(queues) + 1>>]
    /\ UNCHANGED iters
    /\ UNCHANGED <<sessionVars, log>>

\* iter_events(T), first __anext__: subscribe, then suspend in queue.get()
IterStart(k, T) ==
    /\ phase = "up" /\ iters[k].pc = "idle" /\ Len(queues) < MaxQueues
    /\ queues' = Append(queues, NewQueue(0))
    /\ subscribers' = [subscribers EXCEPT ![T] = Append(@, Len(queues) + 1)]
    /\ iters' = [iters EXCEPT ![k] = [pc |-> "waiting", type |-> T,
                                      q |-> Len(queues) + 1]]
    /\ UNCHANGED <<sessionVars, log>>

\* queue.get() returns and the generator yields the event to the loop body
IterNext(k) ==
    /\ phase = "up" /\ iters[k].pc = "waiting"
    /\ queues[iters[k].q].items # <<>>
    /\ queues' = [queues EXCEPT ![iters[k].q].items = Tail(@)]
    /\ iters' = [iters EXCEPT ![k].pc = "yielded"]
    /\ UNCHANGED subscribers
    /\ UNCHANGED <<sessionVars, log>>

\* the loop body is done and asks for the next event
IterResume(k) ==
    /\ phase = "up" /\ iters[k].pc = "yielded"
    /\ iters' = [iters EXCEPT ![k].pc = "waiting"]
    /\ UNCHANGED <<subscribers, queues>>
    /\ UNCHANGED <<sessionVars, log>>

\* the consumer task is cancelled while the generator awaits queue.get():
\* CancelledError is raised inside the generator and its finally block runs
IterCancel(k) ==
    /\ phase = "up" /\ iters[k].pc = "waiting"
    /\ subscribers' = Unsubscribed(subscribers, iters[k].type, iters[k].q)
    /\ iters' = [iters EXCEPT ![k].pc = "closed"]
    /\ UNCHANGED queues
    /\ UNCHANGED <<sessionVars, log>>

\* the loop body leaves the loop (break, an exception, or a cancellation
\* that arrives in the body): the generator stays suspended at its yield
IterBreak(k) ==
    /\ phase = "up" /\ iters[k].pc = "yielded"
    /\ iters' = [iters EXCEPT ![k].pc = "abandoned"]
    /\ UNCHANGED <<subscribers, queues>>
    /\ UNCHANGED <<sessionVars, log>>

\* the abandoned generator is closed (aclose() by the event loop's
\* async-generator finalizer): GeneratorExit at the yield, the finally
\* block runs
IterFinalize(k) ==
    /\ phase = "up" /\ iters[k].pc = "abandoned"
    /\ subscribers' = Unsubscribed(subscribers, iters[k].type, iters[k].q)
    /\ iters' = [iters EXCEPT ![k].pc = "closed"]
    /\ UNCHANGED queues
    /\ UNCHANGED <<sessionVars, log>>

(***************************************************************************)
(* core.subprocess_tracker.  The module's globals, the PID file, the       *)
(* child processes the operating system runs and the os.kill calls made.   *)
(* A line of the file is a sequence of characters.                         *)
(***************************************************************************)
\* process ids of the children started through the tracker's callers
Pids == {7, 12}

\* self._process.pid of a session's agent (ClaudeCodeAgent.start)
AgentPid(c) == IF c \in TopicChan THEN 21 ELSE 22

DigitChars == <<"0", "1", "2", "3", "4", "5", "6", "7", "8", "9">>
Digit(d) == DigitChars[d + 1]
DigitValue(ch) == CHOOSE d \in 0..9 : DigitChars[d + 1] = ch

\* str(pid) for pid >= 0
RECURSIVE Str(_)
Str(n) == IF n < 10 THEN <<Digit(n)>> ELSE Str(n \div 10) \o <<Digit(n % 10)>>

\* line.strip() over blanks
RECURSIVE LStrip(_)
LStrip(line) == IF line # <<>> /\ Head(line) = " " THEN LStrip(Tail(line)) ELSE line
RECURSIVE RStrip(_)
RStrip(line) ==
    IF line # <<>> /\ line[Len(line)] = " "
    THEN RStrip(SubSeq(line, 1, Len(line) - 1)) ELSE line
Strip(line) == RStrip(LStrip(line))

\* int(line) returns a value (lines with a sign or an underscore are not
\* among the lines considered); otherwise it raises ValueError
IsInt(line) == line # <<>> /\ \A i \in 1..Len(line) : line[i] \in Range(DigitChars)
RECURSIVE IntOf(_)
IntOf(line) ==
    IF Len(line) = 1 THEN DigitValue(line[1])
    ELSE 10 * IntOf(SubSeq(line, 1, Len(line) - 1)) + DigitValue(line[Len(line)])

NoFile == [exists |-> FALSE, lines |-> <<>>]
TextFile(lines) == [exists |-> TRUE, lines |-> lines]

\* the module as imported: nothing tracked, no path set
NewTracker ==
    [pids |-> {}, pid_file |-> FALSE, file |-> NoFile, procs |-> {},
     kills |-> [p \in Pids |-> 0], cloudflared |-> 0]

\* the orders in which a set can be iterated
Perms(S) == {f \in [1..Cardinality(S) -> S] :
                \A i, j \in 1..Cardinality(S) : i # j => f[i] # f[j]}

\* _save(): nothing without a path; else one line per tracked pid, in the
\* set's iteration order, and an empty file for the empty set
\* (read_text().splitlines() of what write_text wrote)
SavePids(t) ==
    IF ~t.pid_file THEN {t}
    ELSE {[t EXCEPT !.file = TextFile([i \in 1..Len(o) |-> Str(o[i])])] :
            o \in Perms(t.pids)}

\* os.kill(pid, SIGTERM): the call is counted; a running child terminates,
\* for a pid that is not running ProcessLookupError is raised and swallowed
OsKill(t, pid) == [t EXCEPT !.kills[pid] = Bump(@), !.procs = @ \ {pid}]

RECURSIVE KillEach(_, _)
KillEach(t, S) ==
    IF S = {} THEN t
    ELSE LET pid == CHOOSE p \in S : TRUE
         IN  KillEach(OsKill(t, pid), S \ {pid})

\* the loop of cleanup_stale_pids over the lines read
RECURSIVE KillLines(_, _)
KillLines(t, lines) ==
    IF lines = <<>> THEN t
    ELSE LET line == Strip(Head(lines))
         IN  IF line = <<>> \/ ~IsInt(line)
             THEN KillLines(t, Tail(lines))
             ELSE KillLines(OsKill(t, IntOf(line)), Tail(lines))

\* track(pid), untrack(pid), kill_all() and cleanup_stale_pids(): the
\* tracker values the call can leave
AfterTrack(t, pid) == SavePids([t EXCEPT !.pids = @ \cup {pid}])
AfterUntrack(t, pid) == SavePids([t EXCEPT !.pids = @ \ {pid}])
\* Mutation of AfterKillAll: the tracked set is kept.
AfterKillAll_KeepsSet(t) == SavePids(KillEach(t, t.pids))
AfterKillAll(t) == SavePids([KillEach(t, t.pids) EXCEPT !.pids = {}])
AfterCleanupStalePids(t) ==
    IF ~t.pid_file \/ ~t.file.exists THEN t
    ELSE [KillLines(t, t.file.lines) EXCEPT !.file = NoFile]

\* the interpreter exits after main() returned or raised: atexit runs
\* kill_all
AtExit(t) == AfterKillAll(t)

\* a new process imports the module: nothing tracked, no path set; the
\* file and the children of the last process are still there
FreshTracker(t) == [t EXCEPT !.pids = {}, !.pid_file = FALSE, !.cloudflared = 0]

Up == phase = "up"

trackerFrame == <<phase, runs, now, registered, sessions, table, persisted,
                  worktrees, branchTip, mainTip, topics, tunnels, used,
                  creating, ops, susp, rec, stoppedEv, cleanupRuns, busVars,
                  log, projects, codex>>

SetPidFile ==
    /\ Up
    /\ tracker' = [tracker EXCEPT !.pid_file = TRUE]
    /\ UNCHANGED trackerFrame

Track(pid) ==
    /\ Up
    /\ tracker' \in AfterTrack(tracker, pid)
    /\ UNCHANGED trackerFrame

Untrack(pid) ==
    /\ Up
    /\ tracker' \in AfterUntrack(tracker, pid)
    /\ UNCHANGED trackerFrame

KillAll ==
    /\ Up
    /\ tracker' \in AfterKillAll(tracker)
    /\ UNCHANGED trackerFrame

CleanupStalePids ==
    /\ Up
    /\ tracker' = AfterCleanupStalePids(tracker)
    /\ UNCHANGED trackerFrame

\* RedirectTunnel.start: cloudflared is spawned with a pid no running
\* child has, and tracked
RedirectStart(pid) ==
    /\ Up /\ tracker.cloudflared = 0 /\ pid \notin tracker.procs
    /\ tracker' \in AfterTrack([tracker EXCEPT !.procs = @ \cup {pid},
                                               !.cloudflared = pid], pid)
    /\ UNCHANGED trackerFrame

\* RedirectTunnel.stop: a cloudflared that has not exited is terminated and
\* untracked; one that has exited is only forgotten
RedirectStop ==
    /\ Up /\ tracker.cloudflared # 0
    /\ LET pid == tracker.cloudflared
           t == [tracker EXCEPT !.cloudflared = 0]
       IN  IF pid \in tracker.procs
           THEN tracker' \in AfterUntrack([t EXCEPT !.procs = @ \ {pid}], pid)
           ELSE tracker' = t
    /\ UNCHANGED trackerFrame

\* a child process ends by itself
ChildExit(pid) ==
    /\ phase # "down" /\ pid \in tracker.procs
    /\ tracker' = [tracker EXCEPT !.procs = @ \ {pid}]
    /\ UNCHANGED trackerFrame

(***************************************************************************)
(* adapters.codex.agent.CodexAgent: one `codex exec` child per message.    *)
(* Children and reader tasks are numbered in the order of their creation;  *)
(* 0 stands for None.  out[p] is the number of NDJSON lines of child p     *)
(* that have not been read yet; each line read is mapped to one event.     *)
(***************************************************************************)
MaxChildren == 2
MaxOut == 2

CodexIdle == [pc |-> "idle", on |-> 0]
CodexCall(pc, on) == [pc |-> pc, on |-> on]

\* CodexAgent.__init__
NewCodex ==
    [started |-> FALSE, first_message |-> TRUE, process |-> 0,
     reader_task |-> 0, running |-> {}, out |-> <<>>, readers |-> <<>>,
     event_queue |-> <<>>, calls |-> [i \in Call |-> CodexIdle]]

codexFrame == <<phase, runs, now, registered, sessions, table, persisted,
                worktrees, branchTip, mainTip, topics, tunnels, used,
                creating, ops, susp, rec, stoppedEv, cleanupRuns, busVars,
                log, tracker, projects>>

\* CodexAgent.start(working_dir, None)
CodexStart ==
    /\ Up /\ ~codex.started
    /\ codex' = [codex EXCEPT
                   !.started = TRUE, !.first_message = TRUE,
                   !.event_queue = Append(@, [type |-> "system", turn |-> 0])]
    /\ UNCHANGED codexFrame

\* _wait_for_process from `if self._reader_task is not None` on, and
\* send_message up to `await asyncio.create_subprocess_exec(...)`
AfterProcessWait(x, i) ==
    IF x.reader_task # 0 /\ x.readers[x.reader_task].pc # "done"
    THEN [x EXCEPT !.calls[i] = CodexCall("task", x.reader_task)]
    ELSE [x EXCEPT !.reader_task = 0, !.process = 0, !.first_message = FALSE,
                   !.calls[i] = CodexCall("exec", 0)]

\* send_message is called: RuntimeError when not started; else
\* _wait_for_process, which suspends in process.wait() when the current
\* child has not exited
CodexSendMessage(i) ==
    /\ Up /\ codex.calls[i].pc \in {"idle", "done", "raised"}
    /\ Len(codex.out) < MaxChildren
    /\ codex' = IF ~codex.started
                THEN [codex EXCEPT !.calls[i] = CodexCall("raised", 0)]
                ELSE IF codex.process # 0 /\ codex.process \in codex.running
                THEN [codex EXCEPT !.calls[i] = CodexCall("proc", codex.process)]
                ELSE AfterProcessWait(codex, i)
    /\ UNCHANGED codexFrame

\* `await self._process.wait()` returned
CodexProcessWaited(i) ==
    /\ Up /\ codex.calls[i].pc = "proc"
    /\ codex.calls[i].on \notin codex.running
    /\ codex' = AfterProcessWait(codex, i)
    /\ UNCHANGED codexFrame

\* `await self._reader_task` returned: self._reader_task = None,
\* self._process = None, and send_message goes on to the spawn
CodexTaskAwaited(i) ==
    /\ Up /\ codex.calls[i].pc = "task"
    /\ codex.readers[codex.calls[i].on].pc = "done"
    /\ codex' = [codex EXCEPT !.reader_task = 0, !.process = 0,
                              !.first_message = FALSE,
                              !.calls[i] = CodexCall("exec", 0)]
    /\ UNCHANGED codexFrame

\* create_subprocess_exec returned the new child, which will write n
\* lines: self._process = child, self._reader_task = create_task(...)
CodexSpawned(i, n) ==
    /\ Up /\ codex.calls[i].pc = "exec"
    /\ Len(codex.out) < MaxChildren
    /\ LET k == Len(codex.out) + 1
       IN  codex' = [codex EXCEPT
                       !.process = k, !.reader_task = k,
                       !.running = @ \cup {k},
                       !.out = Append(@, n),
                       !.readers = Append(@, CodexCall("new", 0)),
                       !.calls[i] = CodexCall("done", 0)]
    /\ UNCHANGED codexFrame

\* _read_process_output reaches `await self._process.stdout.readline()`:
\* the positions the task can be in afterwards.  Without a process the
\* task ends (the first test, or AttributeError caught in the loop); on a
\* stream another task is waiting on, readline raises RuntimeError unless
\* a line is already buffered.
EnterReadline(x, k) ==
    IF x.process = 0
    THEN {CodexCall("done", 0)}
    ELSE IF \E j \in 1..Len(x.readers) :
                j # k /\ x.readers[j] = CodexCall("read", x.process)
    THEN {CodexCall("done", 0), CodexCall("read", x.process)}
    ELSE {CodexCall("read", x.process)}

\* the reader task runs for the first time
CodexReaderRun(k) ==
    /\ Up /\ k \in 1..Len(codex.readers) /\ codex.readers[k].pc = "new"
    /\ \E r \in EnterReadline(codex, k) :
          codex' = [codex EXCEPT !.readers[k] = r]
    /\ UNCHANGED codexFrame

\* readline returned a line of child p: the mapped event is put on the
\* queue and the loop reads again, from what self._process is now
CodexReaderLine(k) ==
    /\ Up /\ k \in 1..Len(codex.readers) /\ codex.readers[k].pc = "read"
    /\ LET p == codex.readers[k].on
       IN  /\ codex.out[p] > 0
           /\ \E r \in EnterReadline(codex, k) :
                 codex' = [codex EXCEPT
                             !.out[p] = @ - 1,
                             !.event_queue = Append(@, [type |-> "assistant",
                                                        turn |-> p]),
                             !.readers[k] = r]
    /\ UNCHANGED codexFrame

\* readline returned b"": the child has exited and its output is read
CodexReaderEof(k) ==
    /\ Up /\ k \in 1..Len(codex.readers) /\ codex.readers[k].pc = "read"
    /\ LET p == codex.readers[k].on
       IN  codex.out[p] = 0 /\ p \notin codex.running
    /\ codex' = [codex EXCEPT !.readers[k] = CodexCall("done", 0)]
    /\ UNCHANGED codexFrame

\* a `codex exec` child finishes its task and exits
CodexChildExit(p) ==
    /\ Up /\ p \in codex.running
    /\ codex' = [codex EXCEPT !.running = @ \ {p}]
    /\ UNCHANGED codexFrame

(***************************************************************************)
(* storage.project_store.ProjectStore.  _projects is a dict, kept here as  *)
(* the sequence of its entries in insertion order; projects.json holds     *)
(* what json.dumps wrote of it, which json.loads reads back unchanged.     *)
(***************************************************************************)
Names == {"App", "app", "APP", "lib"}
Paths == {"/repo", "~/app", "/missing"}

\* Path(path).expanduser().resolve()
Resolve(path) == IF path = "~/app" THEN "/home/u/app" ELSE path
IsDir(path) == path \in {"/repo", "/home/u/app"}

NoReturn == [call |-> "none", name |-> Null, value |-> Null]
Return(call, name, value) == [call |-> call, name |-> name, value |-> value]

NoProjectsFile == [exists |-> FALSE, entries |-> <<>>]
ProjectsFile(mem) == [exists |-> TRUE, entries |-> mem]

\* ProjectStore.__init__ with no projects.json
NewStore == [mem |-> <<>>, file |-> NoProjectsFile, ret |-> NoReturn]

\* ProjectStore.__init__ / _load of a new process
LoadStore(p) ==
    [mem |-> IF p.file.exists THEN p.file.entries ELSE <<>>,
     file |-> p.file, ret |-> NoReturn]

KeysOf(mem) == [i \in 1..Len(mem) |-> mem[i].name]

\* Mutation of FindKey: only the exact key is found.
FindKey_ExactOnly(mem, name) ==
    IF name \in Range(KeysOf(mem)) THEN name ELSE Null

\* ProjectStore._find_key: the exact key, else the first key equal to the
\* name after lower(), else None
FindKey(mem, name) ==
    IF name \in Range(KeysOf(mem)) THEN name
    ELSE LET hits == SelectSeq(KeysOf(mem), LAMBDA k : Lower(k) = Lower(name))
         IN  IF hits = <<>> THEN Null ELSE Head(hits)

\* ProjectStore.get
NotFound == [found |-> FALSE]
Found(entry) == [found |-> TRUE, name |-> entry.name, path |-> entry.path,
                 created_at |-> entry.created_at]
EntryOf(mem, key) == mem[CHOOSE i \in 1..Len(mem) : mem[i].name = key]
ProjectGet(mem, name) ==
    IF FindKey(mem, name) = Null THEN NotFound
    ELSE Found(EntryOf(mem, FindKey(mem, name)))

projectsFrame == <<phase, runs, now, registered, sessions, table, persisted,
                   worktrees, branchTip, mainTip, topics, tunnels, used,
                   creating, ops, susp, rec, stoppedEv, cleanupRuns, busVars,
                   log, tracker, codex>>

\* ProjectStore.add(name, path)
ProjectAdd(name, path) ==
    /\ Up
    /\ IF FindKey(projects.mem, name) # Null
       THEN projects' = [projects EXCEPT !.ret = Return("add", name, "False")]
       ELSE IF ~IsDir(Resolve(path))
       THEN projects' = [projects EXCEPT !.ret = Return("add", name, "ValueError")]
       ELSE LET mem == Append(projects.mem,
                              [name |-> name, path |-> Resolve(path),
                               created_at |-> now])
            IN  projects' = [mem |-> mem, file |-> ProjectsFile(mem),
                             ret |-> Return("add", name, "True")]
    /\ UNCHANGED projectsFrame

\* ProjectStore.remove(name)
ProjectRemove(name) ==
    /\ Up
    /\ LET key == FindKey(projects.mem, name)
       IN  IF key = Null
           THEN projects' = [projects EXCEPT !.ret = Return("remove", name, "False")]
           ELSE LET mem == SelectSeq(projects.mem, LAMBDA e : e.name # key)
                IN  projects' = [mem |-> mem, file |-> ProjectsFile(mem),
                                 ret |-> Return("remove", name, "True")]
    /\ UNCHANGED projectsFrame

(***************************************************************************)
(* Commands.cmd_new_session / SessionManager.create_session.  The git      *)
(* commands of one call run as one step.  ts is the second the UTC clock   *)
(* shows when the call reads it; the clock never goes back.                *)
(***************************************************************************)
\* a create_session call that raised before it suspended
CreateRaised(ts) ==
    [kind |-> "create", pc |-> "raised", name |-> SessionName(ProjectName, ts),
     verbose |-> FALSE, template |-> Null]

\* up to and including create_worktree; suspends at create_session_channel
\* (managed) or inside agent.start
CreateStart(c, verbose, template, ts) ==
    /\ Serving /\ c \notin used
    /\ ts >= now /\ now' = ts
    /\ LET name == SessionName(ProjectName, ts)
           wt == WorktreePath(ProjectPath, name)
           br == BranchName(name)
           stale == wt \in worktrees
           \* stale cleanup: remove_worktree (worktree remove --force; branch -D)
           wts1 == IF stale THEN worktrees \ {wt} ELSE worktrees
           brs1 == IF stale THEN [b \in DOMAIN branchTip \ {br} |-> branchTip[b]]
                            ELSE branchTip
       IN  IF ~registered
           THEN \* Unregistered project: ValueError before anything is done
                /\ creating' = [creating EXCEPT ![c] = CreateRaised(ts)]
                /\ UNCHANGED <<worktrees, branchTip, used>>
           ELSE IF br \in DOMAIN brs1
           THEN \* git worktree add -b fails: RuntimeError
                /\ worktrees' = wts1
                /\ branchTip' = brs1
                /\ creating' = [creating EXCEPT ![c] = CreateRaised(ts)]
                /\ UNCHANGED used
           ELSE /\ worktrees' = wts1 \cup {wt}
                /\ branchTip' = [b \in DOMAIN brs1 \cup {br} |->
                                    IF b = br THEN mainTip ELSE brs1[b]]
                /\ used' = used \cup {c}
                /\ creating' = [creating EXCEPT ![c] =
                             [kind |-> "create",
                              pc |-> IF c \in TopicChan THEN "channel" ELSE "agent",
                              name |-> name, verbose |-> verbose,
                              template |-> template]]
    /\ UNCHANGED <<phase, runs, registered, sessions, table, persisted,
                   mainTip, topics, tunnels, ops, susp, rec, stoppedEv,
                   cleanupRuns>>
    /\ UNCHANGED <<busVars, log, tracker, projects, codex>>

\* Mutation of CreateChannel: the call goes on to the agent start without
\* the topic having been created.
CreateChannel_SkipsTopic(c) ==
    /\ creating[c] # Free /\ creating[c].pc = "channel"
    /\ Serving /\ ~WakePending
    /\ creating' = [creating EXCEPT ![c].pc = "agent"]
    /\ UNCHANGED <<phase, runs, now, registered, sessions, table, persisted,
                   worktrees, branchTip, mainTip, topics, tunnels, used, ops,
                   susp, rec, stoppedEv, cleanupRuns>>
    /\ UNCHANGED <<busVars, log, tracker, projects, codex>>

\* messenger.create_session_channel returned the new topic
CreateChannel(c) ==
    /\ creating[c] # Free /\ creating[c].pc = "channel"
    /\ Serving /\ ~WakePending
    /\ topics' = topics \cup {c}
    /\ creating' = [creating EXCEPT ![c].pc = "agent"]
    /\ UNCHANGED <<phase, runs, now, registered, sessions, table, persisted,
                   worktrees, branchTip, mainTip, tunnels, used, ops, susp,
                   rec, stoppedEv, cleanupRuns>>
    /\ UNCHANGED <<busVars, log, tracker, projects, codex>>

\* agent.start returned or raised; on success the session is inserted,
\* the table saved, the reader task created, and cmd_new_session sets verbose
CreateFinish(c, ok) ==
    /\ creating[c] # Free /\ creating[c].pc = "agent"
    /\ Serving /\ ~WakePending
    /\ LET wt == WorktreePath(ProjectPath, creating[c].name)
           started == ok /\ wt \in worktrees
           s0 == [name |-> creating[c].name, project_name |-> ProjectName,
                  project_path |-> ProjectPath, worktree_path |-> wt,
                  channel_id |-> c,
                  agent |-> StartedAgent(CreateAgent(TemplateAgent(creating[c].template)),
                                         wt, Null),
                  agent_session_id |-> Null, state |-> "idle",
                  verbose |-> FALSE, managed_channel |-> c \in TopicChan,
                  template_name |-> creating[c].template, created_at |-> now,
                  task |-> "none", exit |-> "none", leaked |-> FALSE]
           tbl == IF InTable(c) THEN table ELSE Append(table, c)
       IN  IF started
           THEN /\ table' = tbl
                /\ persisted' = SaveSessions(tbl, [sessions EXCEPT ![c] = s0])
                /\ sessions' = [sessions EXCEPT ![c] =
                                  [s0 EXCEPT !.task = "run",
                                             !.verbose = creating[c].verbose]]
                /\ creating' = [creating EXCEPT ![c].pc = "returned"]
           ELSE /\ creating' = [creating EXCEPT ![c].pc = "raised"]
                /\ UNCHANGED <<table, persisted, sessions>>
    /\ UNCHANGED <<phase, runs, now, registered, worktrees, branchTip,
                   mainTip, topics, tunnels, used, ops, susp, rec, stoppedEv,
                   cleanupRuns>>
    /\ UNCHANGED <<busVars, log, tracker, projects, codex>>

(***************************************************************************)
(* SessionManager._read_loop and _publish_agent_event                      *)
(***************************************************************************)
\* the finally block of _read_loop, entered with session s, reaches
\* event_bus.publish(AgentStoppedEvent(...)) without suspending
FinallyPublishes(c, s) == s.state # "stopped" /\ ~CleanupSuspends(c)

\* Mutation of ReadLoopFinally: the finally block publishes no event.
ReadLoopFinally_Silent(c, s) ==
    IF s.state # "stopped"
    THEN <<[s EXCEPT !.state = "stopped",
                     !.task = IF CleanupSuspends(c) THEN "cleanup" ELSE "done"],
           IF CleanupSuspends(c) THEN TunnelsAfterCleanup(c) ELSE tunnels,
           [cleanupRuns EXCEPT ![c] = Bump(@)], stoppedEv>>
    ELSE <<[s EXCEPT !.task = "done"], tunnels, cleanupRuns, stoppedEv>>

\* The finally block of _read_loop up to its first suspension, entered with
\* session s.  Returns <<session', tunnels', cleanupRuns', stoppedEv'>>.
ReadLoopFinally(c, s) ==
    IF s.state # "stopped"
    THEN IF CleanupSuspends(c)
         THEN <<[s EXCEPT !.state = "stopped", !.task = "cleanup"],
                TunnelsAfterCleanup(c),
                [cleanupRuns EXCEPT ![c] = Bump(@)], stoppedEv>>
         ELSE <<[s EXCEPT !.state = "stopped", !.task = "done"],
                tunnels,
                [cleanupRuns EXCEPT ![c] = Bump(@)],
                [stoppedEv EXCEPT ![c] = Bump(@)]>>
    ELSE <<[s EXCEPT !.task = "done"], tunnels, cleanupRuns, stoppedEv>>

\* Raw messages the agent may emit next, given its position in the turn:
\* a system init once per process, then assistant / permission_request /
\* result / file_output while a turn is running.
RawTypes(a) ==
    (IF a.sid = Null THEN {"system"} ELSE {})
    \cup (IF a.turn = "busy"
          THEN {"assistant", "permission_request", "result", "file_output"}
          ELSE {})

\* A raw message is a dict: a function from its keys to values.
\* dict.get(key, default)
MsgGet(msg, key, default) == IF key \in DOMAIN msg THEN msg[key] ELSE default
\* a message of the given type whose only other key is session_id
Raw(type, sid) == [type |-> type, session_id |-> sid]

\* Python values of an assistant message's content
PyNone == [py |-> "None"]
PyStr(v) == [py |-> "str", val |-> v]
PyList(v) == [py |-> "list", val |-> v]
DictBlock(type) == [py |-> "dict", type |-> type]
\* truth value of a Python object
Truthy(x) ==
    CASE x.py = "str" -> x.val # ""
      [] x.py = "list" -> x.val # <<>>
      [] OTHER -> FALSE

\* isinstance(block, dict) and block.get("type") == "text"
IsTextBlock(block) ==
    block.py = "dict" /\ "type" \in DOMAIN block /\ block.type = "text"

\* the for loop of _classify_assistant_level
RECURSIVE ClassifyBlocks(_)
ClassifyBlocks(blocks) ==
    IF blocks = <<>> THEN "PROGRESS"
    ELSE IF IsTextBlock(Head(blocks)) THEN "INFO"
    ELSE ClassifyBlocks(Tail(blocks))

\* Mutation of ClassifyAssistantLevel: only the first block is looked at.
ClassifyAssistantLevel_FirstBlock(content_blocks) ==
    IF content_blocks.py = "str" THEN "INFO"
    ELSE IF content_blocks.val # <<>> /\ IsTextBlock(Head(content_blocks.val))
         THEN "INFO" ELSE "PROGRESS"

\* SessionManager._classify_assistant_level(content_blocks)
ClassifyAssistantLevel(content_blocks) ==
    IF content_blocks.py = "str" THEN "INFO"
    ELSE ClassifyBlocks(content_blocks.val)

\* msg.get("content") or msg.get("message", {}).get("content", [])
ContentBlocks(msg) ==
    LET content == MsgGet(msg, "content", PyNone)
    IN  IF Truthy(content) THEN content
        ELSE MsgGet(MsgGet(msg, "message", <<>>), "content", PyList(<<>>))

\* does `if sid:` pass
HasSid(msg) == MsgGet(msg, "session_id", Null) \notin {Null, ""}

\* Mutation of EventsOf: a result publishes the input request first.
EventsOf_InputRequestFirst(s, msg) ==
    CASE msg.type = "system" ->
            <<AgentSystemEvent(s.channel_id, MsgGet(msg, "session_id", Null))>>
      [] msg.type = "assistant" ->
            <<AgentAssistantEvent(s.channel_id, ContentBlocks(msg), s.name,
                                  ClassifyAssistantLevel(ContentBlocks(msg)),
                                  s.verbose)>>
      [] msg.type = "permission_request" ->
            <<AgentPermissionRequestEvent(s.channel_id, MsgGet(msg, "id", ""),
                                          MsgGet(msg, "tool_name", "unknown"))>>
      [] msg.type = "result" ->
            <<AgentInputRequestEvent(s.channel_id, s.name),
              AgentResultEvent(s.channel_id, MsgGet(msg, "total_cost_usd", 0),
                               MsgGet(msg, "duration_ms", 0))>>
      [] OTHER -> <<>>

\* _publish_agent_event(session, msg): the events handed to
\* event_bus.publish, in call order
EventsOf(s, msg) ==
    CASE msg.type = "system" ->
            <<AgentSystemEvent(s.channel_id, MsgGet(msg, "session_id", Null))>>
      [] msg.type = "assistant" ->
            <<AgentAssistantEvent(s.channel_id, ContentBlocks(msg), s.name,
                                  ClassifyAssistantLevel(ContentBlocks(msg)),
                                  s.verbose)>>
      [] msg.type = "permission_request" ->
            <<AgentPermissionRequestEvent(s.channel_id, MsgGet(msg, "id", ""),
                                          MsgGet(msg, "tool_name", "unknown"))>>
      [] msg.type = "result" ->
            <<AgentResultEvent(s.channel_id, MsgGet(msg, "total_cost_usd", 0),
                               MsgGet(msg, "duration_ms", 0)),
              AgentInputRequestEvent(s.channel_id, s.name)>>
      [] OTHER -> <<>>

\* _publish_agent_event(session, msg): the session after the message; a
\* message of a type without a branch changes nothing
PublishAgentEvent(s, msg) ==
    CASE msg.type = "system" ->
            IF HasSid(msg)
            THEN [s EXCEPT !.agent_session_id = msg.session_id, !.state = "idle",
                           !.agent.sid = msg.session_id]
            ELSE [s EXCEPT !.state = "idle"]
      [] msg.type = "assistant" -> [s EXCEPT !.state = "running"]
      [] msg.type = "permission_request" ->
            [s EXCEPT !.state = "waiting_permission", !.agent.turn = "asking"]
      [] msg.type = "result" -> [s EXCEPT !.state = "idle", !.agent.turn = "quiet"]
      [] OTHER -> s

\* one iteration of `async for msg in session.agent.read_responses()`
ReaderMsg(c, msg) ==
    /\ phase # "down" /\ Live(c)
    /\ sessions[c].task = "run" /\ IsAlive(sessions[c].agent)
    /\ msg.type \in RawTypes(sessions[c].agent)
    /\ LET s == sessions[c]
           s1 == PublishAgentEvent(s, msg)
           \* system: the table is saved after the id is stored and before
           \* the state is set to idle
           atSave == [s EXCEPT !.agent_session_id = msg.session_id,
                               !.agent.sid = msg.session_id]
       IN  /\ sessions' = [sessions EXCEPT ![c] = s1]
           /\ persisted' = IF msg.type = "system" /\ HasSid(msg)
                           THEN SaveSessions(table, [sessions EXCEPT ![c] = atSave])
                           ELSE persisted
           /\ queues' = PublishAll(queues, EventsOf(s1, msg))
           /\ log' = Logged(<<Wrote(c, msg)>> \o Published(EventsOf(s1, msg)))
    /\ UNCHANGED <<phase, runs, now, registered, table, worktrees, branchTip,
                   mainTip, topics, tunnels, used, creating, ops, susp, rec,
                   stoppedEv, cleanupRuns>>
    /\ UNCHANGED <<subscribers, iters>>
    /\ UNCHANGED <<tracker, projects, codex>>

\* read_responses() ends (the process is gone and nobody cancelled the
\* reader): the unexpected-exit path
ReaderStreamEnd(c) ==
    /\ phase # "down" /\ Live(c)
    /\ sessions[c].task = "run" /\ ~IsAlive(sessions[c].agent)
    /\ LET r == ReadLoopFinally(c, [sessions[c] EXCEPT
                    !.agent.alive = FALSE,
                    !.exit = IF InProgress(c) THEN "raced" ELSE "crash"])
       IN  /\ sessions' = [sessions EXCEPT ![c] = r[1]]
           /\ tunnels' = r[2]
           /\ cleanupRuns' = r[3]
           /\ stoppedEv' = r[4]
    /\ UNCHANGED <<phase, runs, now, registered, table, persisted, worktrees,
                   branchTip, mainTip, topics, used, creating, ops, susp, rec>>
    /\ queues' = IF FinallyPublishes(c, sessions[c])
                  THEN Publish(queues, AgentStoppedEvent(c, sessions[c].name))
                  ELSE queues
    /\ log' = IF FinallyPublishes(c, sessions[c])
               THEN Logged(Published(<<AgentStoppedEvent(c, sessions[c].name)>>))
               ELSE log
    /\ UNCHANGED <<subscribers, iters>>
    /\ UNCHANGED <<tracker, projects, codex>>

\* the cancelled reader runs: CancelledError is swallowed, then the finally
\* block; a reader cancelled inside the finally block just ends
ReaderCancelled(c) ==
    /\ phase # "down" /\ Live(c)
    /\ sessions[c].task \in {"cancelling", "cancelcleanup"}
    /\ LET r == IF sessions[c].task = "cancelling"
                THEN ReadLoopFinally(c, [sessions[c] EXCEPT !.exit = "cancel"])
                ELSE <<[sessions[c] EXCEPT !.task = "done"], tunnels,
                       cleanupRuns, stoppedEv>>
       IN  /\ sessions' = [sessions EXCEPT ![c] = r[1]]
           /\ tunnels' = r[2]
           /\ cleanupRuns' = r[3]
           /\ stoppedEv' = r[4]
    /\ UNCHANGED <<phase, runs, now, registered, table, persisted, worktrees,
                   branchTip, mainTip, topics, used, creating, ops, susp, rec>>
    /\ queues' = IF sessions[c].task = "cancelling"
                     /\ FinallyPublishes(c, sessions[c])
                  THEN Publish(queues, AgentStoppedEvent(c, sessions[c].name))
                  ELSE queues
    /\ log' = IF sessions[c].task = "cancelling"
                  /\ FinallyPublishes(c, sessions[c])
               THEN Logged(Published(<<AgentStoppedEvent(c, sessions[c].name)>>))
               ELSE log
    /\ UNCHANGED <<subscribers, iters>>
    /\ UNCHANGED <<tracker, projects, codex>>

\* _run_cleanup inside the finally block returned: publish AgentStoppedEvent
ReaderCleanupDone(c) ==
    /\ phase # "down" /\ Live(c) /\ ~WakePending
    /\ sessions[c].task = "cleanup"
    /\ sessions' = [sessions EXCEPT ![c].task = "done"]
    /\ stoppedEv' = [stoppedEv EXCEPT ![c] = Bump(@)]
    /\ UNCHANGED <<phase, runs, now, registered, table, persisted, worktrees,
                   branchTip, mainTip, topics, tunnels, used, creating, ops, susp,
                   rec, cleanupRuns>>
    /\ queues' = Publish(queues, AgentStoppedEvent(c, sessions[c].name))
    /\ log' = Logged(Published(<<AgentStoppedEvent(c, sessions[c].name)>>))
    /\ UNCHANGED <<subscribers, iters>>
    /\ UNCHANGED <<tracker, projects, codex>>

(***************************************************************************)
(* Commands.cmd_send_message / SessionManager.send_to_session and          *)
(* send_permission_response                                                *)
(***************************************************************************)
SendAccepted(c) == InTable(c) /\ IsAlive(sessions[c].agent)

SendToSession(c) ==
    /\ Serving /\ SendAccepted(c)
    /\ sessions' = [sessions EXCEPT ![c].state = "running",
                       ![c].agent.turn = IF @ = "quiet" THEN "busy" ELSE @]
    /\ UNCHANGED <<phase, runs, now, registered, table, persisted, worktrees,
                   branchTip, mainTip, topics, tunnels, used, creating, ops,
                   susp, rec, stoppedEv, cleanupRuns>>
    /\ UNCHANGED <<busVars, log, tracker, projects, codex>>

\* log entries of Commands.cmd_send_message: the agent.send_message(text)
\* call, the message_store.append(channel_id, "user", text) call and the
\* value returned
SentMessage(channel_id, text) ==
    [call |-> "send_message", channel_id |-> channel_id, text |-> text]
AppendedMessage(channel_id, role, text) ==
    [call |-> "append", channel_id |-> channel_id, role |-> role, text |-> text]
Returned(name, channel_id, value) ==
    [call |-> "return", name |-> name, channel_id |-> channel_id, value |-> value]

\* Mutation of CmdSendMessage: the text goes into the history even when
\* the session refused it.
CmdSendMessage_RecordsRefused(c, text) ==
    /\ Serving
    /\ IF SendAccepted(c)
       THEN /\ sessions' = [sessions EXCEPT ![c].state = "running",
                              ![c].agent.turn = IF @ = "quiet" THEN "busy" ELSE @]
            /\ log' = Logged(<<SentMessage(c, text),
                               AppendedMessage(c, "user", text),
                               Returned("cmd_send_message", c, TRUE)>>)
       ELSE /\ UNCHANGED sessions
            /\ log' = Logged(<<AppendedMessage(c, "user", text),
                               Returned("cmd_send_message", c, FALSE)>>)
    /\ UNCHANGED <<phase, runs, now, registered, table, persisted, worktrees,
                   branchTip, mainTip, topics, tunnels, used, creating, ops,
                   susp, rec, stoppedEv, cleanupRuns>>
    /\ UNCHANGED busVars
    /\ UNCHANGED <<tracker, projects, codex>>

\* Commands.cmd_send_message(channel_id, text): send_to_session, then the
\* text is appended to the channel's history if it was accepted
CmdSendMessage(c, text) ==
    /\ Serving
    /\ IF SendAccepted(c)
       THEN /\ sessions' = [sessions EXCEPT ![c].state = "running",
                              ![c].agent.turn = IF @ = "quiet" THEN "busy" ELSE @]
            /\ log' = Logged(<<SentMessage(c, text),
                               AppendedMessage(c, "user", text),
                               Returned("cmd_send_message", c, TRUE)>>)
       ELSE /\ UNCHANGED sessions
            /\ log' = Logged(<<Returned("cmd_send_message", c, FALSE)>>)
    /\ UNCHANGED <<phase, runs, now, registered, table, persisted, worktrees,
                   branchTip, mainTip, topics, tunnels, used, creating, ops,
                   susp, rec, stoppedEv, cleanupRuns>>
    /\ UNCHANGED busVars
    /\ UNCHANGED <<tracker, projects, codex>>

\* Mutation of SendPermissionResponse: the agent is told "allowed" whatever
\* the answer was.
SendPermissionResponse_AlwaysAllows(c, request_id, allowed) ==
    /\ Serving /\ SendAccepted(c)
    /\ sessions' = [sessions EXCEPT ![c].state = "running",
                       ![c].agent.turn = IF @ = "asking" THEN "busy" ELSE @]
    /\ log' = Logged(<<Responded(c, request_id, TRUE)>>)
    /\ UNCHANGED <<phase, runs, now, registered, table, persisted, worktrees,
                   branchTip, mainTip, topics, tunnels, used, creating, ops,
                   susp, rec, stoppedEv, cleanupRuns>>
    /\ UNCHANGED busVars
    /\ UNCHANGED <<tracker, projects, codex>>

\* send_permission_response(channel_id, request_id, allowed); the write to
\* the agent's stdin does not suspend
SendPermissionResponse(c, request_id, allowed) ==
    /\ Serving /\ SendAccepted(c)
    /\ sessions' = [sessions EXCEPT ![c].state = "running",
                       ![c].agent.turn = IF @ = "asking" THEN "busy" ELSE @]
    /\ log' = Logged(<<Responded(c, request_id, allowed)>>)
    /\ UNCHANGED <<phase, runs, now, registered, table, persisted, worktrees,
                   branchTip, mainTip, topics, tunnels, used, creating, ops,
                   susp, rec, stoppedEv, cleanupRuns>>
    /\ UNCHANGED busVars
    /\ UNCHANGED <<tracker, projects, codex>>

(***************************************************************************)
(* Environment: the agent process, the operator, the clock                 *)
(***************************************************************************)
\* the agent process exits by itself
AgentExit(c) ==
    /\ phase # "down" /\ Live(c) /\ sessions[c].agent.proc = "run"
    /\ sessions' = [sessions EXCEPT ![c].agent.proc = "exited"]
    /\ UNCHANGED <<phase, runs, now, registered, table, persisted, worktrees,
                   branchTip, mainTip, topics, tunnels, used, creating, ops,
                   susp, rec, stoppedEv, cleanupRuns>>
    /\ UNCHANGED <<busVars, log, tracker, projects, codex>>

\* Commands.cmd_start_tunnel / TunnelCapability.start_tunnel
StartTunnel(c) ==
    /\ Serving /\ InTable(c) /\ c \notin tunnels
    /\ sessions[c].worktree_path \in worktrees
    /\ tunnels' = tunnels \cup {c}
    /\ UNCHANGED <<phase, runs, now, registered, sessions, table, persisted,
                   worktrees, branchTip, mainTip, topics, used, creating,
                   ops, susp, rec, stoppedEv, cleanupRuns>>
    /\ UNCHANGED <<busVars, log, tracker, projects, codex>>

\* ProjectStore.add / ProjectStore.remove through the facade
SetRegistered(b) ==
    /\ Serving /\ registered # b
    /\ registered' = b
    /\ UNCHANGED <<phase, runs, now, sessions, table, persisted, worktrees,
                   branchTip, mainTip, topics, tunnels, used, creating, ops,
                   susp, rec, stoppedEv, cleanupRuns>>
    /\ UNCHANGED <<busVars, log, tracker, projects, codex>>

(***************************************************************************)
(* SessionManager.stop_session and complete_session.  The record of the    *)
(* call a handler made last stays in ops after the call has ended, with    *)
(* pc "done" and the outcome in ret, until the handler makes its next call.*)
(***************************************************************************)
\* the agent session id a session holds: the agent's, else the stored one
HeldSid(s) == IF s.agent.sid # Null THEN s.agent.sid ELSE s.agent_session_id

NewOp(kind, c, pc, held) ==
    [kind |-> kind, chan |-> c, pc |-> pc, ret |-> "none", held |-> held]
Ended(op, ret) == [op EXCEPT !.pc = "done", !.ret = ret]
NextCall(i) == ops[i].pc \in {"free", "done"}
Running(i, kind, pc) == ops[i] # Free /\ ops[i].kind = kind /\ ops[i].pc = pc

\* where the call goes on after agent.stop() and the assignment
\* session.agent_session_id = session.agent.session_id
AfterAgentStop(kind) == IF kind = "stop" THEN "rmwt" ELSE "rebase"

\* `await session.agent.stop()` is reached.  ClaudeCodeAgent.stop() awaits
\* the cancelled stderr task and the process exit; on an agent without a
\* process (never started, or stopped before) it returns without suspending.
\* Returns <<session', pc'>>.
EnterAgentStop(s, kind) ==
    IF s.agent.proc = "none"
    THEN <<[s EXCEPT !.agent_session_id = s.agent.sid], AfterAgentStop(kind)>>
    ELSE <<s, "stop">>

\* lines `session.state = "stopped"; session._response_task.cancel()`
MarkStopped(s) == [s EXCEPT !.state = "stopped", !.task = CancelTask(s.task)]

StopStart(i, c) ==
    /\ Serving /\ NextCall(i)
    /\ IF ~InTable(c)
       THEN /\ ops' = [ops EXCEPT ![i] = Ended(NewOp("stop", c, "done", Null), "false")]
            /\ UNCHANGED <<sessions, tunnels, cleanupRuns>>
       ELSE /\ cleanupRuns' = [cleanupRuns EXCEPT ![c] = Bump(@)]
            /\ IF CleanupSuspends(c)
               THEN /\ tunnels' = TunnelsAfterCleanup(c)
                    /\ sessions' = [sessions EXCEPT ![c] = MarkStopped(@)]
                    /\ ops' = [ops EXCEPT ![i] =
                                 NewOp("stop", c, "cleanup", HeldSid(sessions[c]))]
               ELSE LET r == EnterAgentStop(MarkStopped(sessions[c]), "stop")
                    IN  /\ sessions' = [sessions EXCEPT ![c] = r[1]]
                        /\ ops' = [ops EXCEPT ![i] =
                                     NewOp("stop", c, r[2], HeldSid(sessions[c]))]
                        /\ UNCHANGED tunnels
    /\ UNCHANGED <<phase, runs, now, registered, table, persisted, worktrees,
                   branchTip, mainTip, topics, used, creating, susp, rec,
                   stoppedEv>>
    /\ UNCHANGED <<busVars, log, tracker, projects, codex>>

CompleteStart(i, c) ==
    /\ Serving /\ NextCall(i)
    /\ IF ~InTable(c)
       THEN /\ ops' = [ops EXCEPT ![i] =
                         Ended(NewOp("complete", c, "done", Null), "nosession")]
            /\ UNCHANGED <<sessions, tunnels, cleanupRuns>>
       ELSE /\ cleanupRuns' = [cleanupRuns EXCEPT ![c] = Bump(@)]
            /\ IF CleanupSuspends(c)
               THEN /\ tunnels' = TunnelsAfterCleanup(c)
                    /\ ops' = [ops EXCEPT ![i] =
                                 NewOp("complete", c, "cleanup", HeldSid(sessions[c]))]
                    /\ UNCHANGED sessions
               ELSE LET r == EnterAgentStop(MarkStopped(sessions[c]), "complete")
                    IN  /\ sessions' = [sessions EXCEPT ![c] = r[1]]
                        /\ ops' = [ops EXCEPT ![i] =
                                     NewOp("complete", c, r[2], HeldSid(sessions[c]))]
                        /\ UNCHANGED tunnels
    /\ UNCHANGED <<phase, runs, now, registered, table, persisted, worktrees,
                   branchTip, mainTip, topics, used, creating, susp, rec,
                   stoppedEv>>
    /\ UNCHANGED <<busVars, log, tracker, projects, codex>>

\* _run_cleanup returned
OpAfterCleanup(i) ==
    /\ Running(i, "stop", "cleanup") \/ Running(i, "complete", "cleanup")
    /\ phase # "down" /\ ~WakePending
    /\ LET c == ops[i].chan
           s == IF ops[i].kind = "stop" THEN sessions[c] ELSE MarkStopped(sessions[c])
           r == EnterAgentStop(s, ops[i].kind)
       IN  /\ sessions' = [sessions EXCEPT ![c] = r[1]]
           \* complete_session cancels the reader only now: an id that
           \* arrived during the cleanup is held by the session as well
           /\ ops' = [ops EXCEPT ![i].pc = r[2],
                                 ![i].held = IF ops[i].kind = "complete"
                                             THEN HeldSid(sessions[c]) ELSE @]
    /\ UNCHANGED <<phase, runs, now, registered, table, persisted, worktrees,
                   branchTip, mainTip, topics, tunnels, used, creating, susp,
                   rec, stoppedEv, cleanupRuns>>
    /\ UNCHANGED <<busVars, log, tracker, projects, codex>>

\* ClaudeCodeAgent.stop() returned: _alive = False, the process is gone,
\* _process = None; then session.agent_session_id = session.agent.session_id
OpAgentStop(i) ==
    /\ Running(i, "stop", "stop") \/ Running(i, "complete", "stop")
    /\ phase # "down" /\ ~CancelPending
    /\ LET c == ops[i].chan
           s == sessions[c]
           a == [s.agent EXCEPT !.alive = FALSE, !.proc = "none"]
       IN  sessions' = [sessions EXCEPT ![c] =
                          [s EXCEPT !.agent = a, !.agent_session_id = a.sid]]
    /\ ops' = [ops EXCEPT ![i].pc = AfterAgentStop(ops[i].kind)]
    /\ UNCHANGED <<phase, runs, now, registered, table, persisted, worktrees,
                   branchTip, mainTip, topics, tunnels, used, creating, susp,
                   rec, stoppedEv, cleanupRuns>>
    /\ UNCHANGED <<busVars, log, tracker, projects, codex>>

\* git_worktree.remove_worktree: worktree remove --force, branch -D
WithoutBranch(tips, br) == [b \in DOMAIN tips \ {br} |-> tips[b]]

\* stop_session, `await remove_worktree(...)`: git has run
\* `worktree remove --force` and `branch -D`; the call is still suspended
StopWorktree(i) ==
    /\ Running(i, "stop", "rmwt")
    /\ phase # "down"
    /\ LET s == sessions[ops[i].chan]
       IN  /\ worktrees' = worktrees \ {s.worktree_path}
           /\ branchTip' = WithoutBranch(branchTip, BranchName(s.name))
    /\ ops' = [ops EXCEPT ![i].pc = "del"]
    /\ UNCHANGED <<phase, runs, now, registered, sessions, table, persisted,
                   mainTip, topics, tunnels, used, creating, susp, rec,
                   stoppedEv, cleanupRuns>>
    /\ UNCHANGED <<busVars, log, tracker, projects, codex>>

\* Mutation of StopRemove: the session stays in the table.
StopRemove_KeepsEntry(i) ==
    /\ Running(i, "stop", "del")
    /\ phase # "down" /\ ~WakePending
    /\ LET c == ops[i].chan
           s == sessions[c]
       IN  /\ persisted' = SaveSessions(table, sessions)
           /\ ops' = [ops EXCEPT ![i] =
                        IF s.managed_channel THEN [@ EXCEPT !.pc = "close"]
                        ELSE Ended(@, "true")]
    /\ UNCHANGED <<phase, runs, now, registered, sessions, table, worktrees,
                   branchTip, mainTip, topics, tunnels, used, creating, susp,
                   rec, stoppedEv, cleanupRuns>>
    /\ UNCHANGED <<busVars, log, tracker, projects, codex>>

\* stop_session after remove_worktree returned:
\* del self._sessions[channel_id]; _save_sessions(); then the topic is
\* closed if managed
StopRemove(i) ==
    /\ Running(i, "stop", "del")
    /\ phase # "down" /\ ~WakePending
    /\ LET c == ops[i].chan
           s == sessions[c]
       IN  IF ~InTable(c)
           THEN \* KeyError
                /\ ops' = [ops EXCEPT ![i] = Ended(@, "raised")]
                /\ UNCHANGED <<table, persisted>>
           ELSE /\ table' = RemoveFrom(table, c)
                /\ persisted' = SaveSessions(RemoveFrom(table, c), sessions)
                /\ ops' = [ops EXCEPT ![i] =
                             IF s.managed_channel THEN [@ EXCEPT !.pc = "close"]
                             ELSE Ended(@, "true")]
    /\ UNCHANGED <<phase, runs, now, registered, sessions, worktrees,
                   branchTip, mainTip, topics, tunnels, used, creating, susp,
                   rec, stoppedEv, cleanupRuns>>
    /\ UNCHANGED <<busVars, log, tracker, projects, codex>>

\* Mutation of OpClose: a close_session_channel that raises ends the call.
OpClose_FailureRaises(i, ok) ==
    /\ Running(i, "stop", "close") \/ Running(i, "complete", "close")
    /\ phase # "down" /\ ~WakePending
    /\ topics' = IF ok THEN topics \ {ops[i].chan} ELSE topics
    /\ ops' = [ops EXCEPT ![i] = Ended(@, IF ok THEN "true" ELSE "raised")]
    /\ UNCHANGED <<phase, runs, now, registered, sessions, table, persisted,
                   worktrees, branchTip, mainTip, tunnels, used, creating,
                   susp, rec, stoppedEv, cleanupRuns>>
    /\ UNCHANGED <<busVars, log, tracker, projects, codex>>

\* messenger.close_session_channel returned or raised (best effort)
OpClose(i, ok) ==
    /\ Running(i, "stop", "close") \/ Running(i, "complete", "close")
    /\ phase # "down" /\ ~WakePending
    /\ topics' = IF ok THEN topics \ {ops[i].chan} ELSE topics
    /\ ops' = [ops EXCEPT ![i] = Ended(@, "true")]
    /\ UNCHANGED <<phase, runs, now, registered, sessions, table, persisted,
                   worktrees, branchTip, mainTip, tunnels, used, creating,
                   susp, rec, stoppedEv, cleanupRuns>>
    /\ UNCHANGED <<busVars, log, tracker, projects, codex>>

\* complete_session, `if not success:` - state idle, a new agent object is
\* assigned to the session and agent.start is awaited.
RestartPath(s) == [s EXCEPT !.state = "idle", !.agent = CreateAgent(Null)]

\* a commit made on main outside the supervisor
ExternalCommit == <<"ext", 0>>

\* git_worktree.commit_worktree_changes, then merge_branch_to_main up to
\* the result of `git rebase main` run inside the worktree.  The rebase can
\* stop on a conflict only when both sides have commits of their own.
\* main_moved: somebody has committed on main in the meantime.
CompleteRebase(i, had_changes, main_moved, rebase_ok) ==
    /\ Running(i, "complete", "rebase")
    /\ phase # "down" /\ ~WakePending
    /\ LET c == ops[i].chan
           s == sessions[c]
           br == BranchName(s.name)
           tip0 == IF br \in DOMAIN branchTip THEN branchTip[br] ELSE {}
           tip1 == IF had_changes THEN tip0 \cup {s.name} ELSE tip0
           main1 == IF main_moved THEN mainTip \cup {ExternalCommit} ELSE mainTip
           conflict == ~rebase_ok /\ tip1 \ main1 # {} /\ main1 \ tip1 # {}
       IN  IF s.worktree_path \notin worktrees \/ br \notin DOMAIN branchTip
           THEN \* git cannot run in a missing directory: the call raises
                /\ ops' = [ops EXCEPT ![i] = Ended(@, "raised")]
                /\ UNCHANGED <<sessions, branchTip, mainTip, susp>>
           ELSE IF conflict
           THEN \* rebase --abort; return (False, stderr)
                /\ branchTip' = [branchTip EXCEPT ![br] = tip1]
                /\ mainTip' = main1
                /\ sessions' = [sessions EXCEPT ![c] = RestartPath(s)]
                /\ ops' = [ops EXCEPT ![i].pc = "restart"]
                /\ UNCHANGED susp
           ELSE /\ branchTip' = [branchTip EXCEPT ![br] = tip1 \cup main1]
                /\ mainTip' = main1
                /\ ops' = [ops EXCEPT ![i].pc = "merge"]
                /\ UNCHANGED <<sessions, susp>>
    /\ UNCHANGED <<phase, runs, now, registered, table, persisted, worktrees,
                   topics, tunnels, used, creating, rec, stoppedEv,
                   cleanupRuns>>
    /\ UNCHANGED <<busVars, log, tracker, projects, codex>>

\* `git merge --ff-only branch` succeeds iff main is an ancestor of branch
CanFastForward(br) == br \in DOMAIN branchTip /\ mainTip \subseteq branchTip[br]

\* `git branch -d` deletes only a branch that is merged into HEAD
DeleteBranch(tips, br, head) ==
    IF br \in DOMAIN tips /\ tips[br] \subseteq head
    THEN WithoutBranch(tips, br) ELSE tips

\* Mutation of CompleteMerge: main is fast-forwarded with the worktree
\* still in place.
CompleteMerge_KeepsWorktree(i) ==
    /\ Running(i, "complete", "merge")
    /\ phase # "down" /\ ~WakePending
    /\ LET c == ops[i].chan
           s == sessions[c]
           br == BranchName(s.name)
       IN  /\ worktrees' = worktrees
           /\ IF CanFastForward(br)
              THEN /\ mainTip' = branchTip[br]
                   /\ branchTip' = DeleteBranch(branchTip, br, branchTip[br])
                   /\ UNCHANGED <<sessions, susp>>
                   /\ IF ~InTable(c)
                      THEN \* KeyError
                           /\ ops' = [ops EXCEPT ![i] = Ended(@, "raised")]
                           /\ UNCHANGED <<table, persisted>>
                      ELSE /\ table' = RemoveFrom(table, c)
                           /\ persisted' = SaveSessions(RemoveFrom(table, c), sessions)
                           /\ ops' = [ops EXCEPT ![i] =
                                        IF s.managed_channel
                                        THEN [@ EXCEPT !.pc = "close"]
                                        ELSE Ended(@, "true")]
              ELSE /\ sessions' = [sessions EXCEPT ![c] = RestartPath(s)]
                   /\ ops' = [ops EXCEPT ![i].pc = "restart"]
                   /\ UNCHANGED susp
                   /\ UNCHANGED <<mainTip, branchTip, table, persisted>>
    /\ UNCHANGED <<phase, runs, now, registered, topics, tunnels, used,
                   creating, rec, stoppedEv, cleanupRuns>>
    /\ UNCHANGED <<busVars, log, tracker, projects, codex>>

\* merge_branch_to_main from remove_worktree_after_merge on: the worktree is
\* removed, then merge --ff-only.  On success complete_session steps 5-7:
\* delete_branch; del self._sessions[channel_id]; _save_sessions(); then the
\* topic is closed if managed.  On failure the restart path.
CompleteMerge(i) ==
    /\ Running(i, "complete", "merge")
    /\ phase # "down" /\ ~WakePending
    /\ LET c == ops[i].chan
           s == sessions[c]
           br == BranchName(s.name)
       IN  /\ worktrees' = worktrees \ {s.worktree_path}
           /\ IF CanFastForward(br)
              THEN /\ mainTip' = branchTip[br]
                   /\ branchTip' = DeleteBranch(branchTip, br, branchTip[br])
                   /\ UNCHANGED <<sessions, susp>>
                   /\ IF ~InTable(c)
                      THEN \* KeyError
                           /\ ops' = [ops EXCEPT ![i] = Ended(@, "raised")]
                           /\ UNCHANGED <<table, persisted>>
                      ELSE /\ table' = RemoveFrom(table, c)
                           /\ persisted' = SaveSessions(RemoveFrom(table, c), sessions)
                           /\ ops' = [ops EXCEPT ![i] =
                                        IF s.managed_channel
                                        THEN [@ EXCEPT !.pc = "close"]
                                        ELSE Ended(@, "true")]
              ELSE /\ sessions' = [sessions EXCEPT ![c] = RestartPath(s)]
                   /\ ops' = [ops EXCEPT ![i].pc = "restart"]
                   /\ UNCHANGED susp
                   /\ UNCHANGED <<mainTip, branchTip, table, persisted>>
    /\ UNCHANGED <<phase, runs, now, registered, topics, tunnels, used,
                   creating, rec, stoppedEv, cleanupRuns>>
    /\ UNCHANGED <<busVars, log, tracker, projects, codex>>

\* complete_session, failure path: agent.start(worktree, agent_session_id)
\* returned or raised; on success a new reader task is created and
\* (False, detail) is returned.  A reader task the session still had is no
\* longer referenced; it is recorded as leaked and not followed further.
CompleteRestart(i, ok) ==
    /\ Running(i, "complete", "restart")
    /\ phase # "down" /\ ~WakePending
    /\ LET c == ops[i].chan
           s == sessions[c]
           started == ok /\ s.worktree_path \in worktrees
       IN  IF started
           THEN /\ sessions' = [sessions EXCEPT ![c] =
                                  [s EXCEPT !.agent = StartedAgent(s.agent,
                                                s.worktree_path, s.agent_session_id),
                                            !.task = "run", !.exit = "none",
                                            !.leaked = s.leaked
                                                \/ s.task \notin {"none", "done"}]]
                /\ ops' = [ops EXCEPT ![i] = Ended(@, "false")]
                /\ stoppedEv' = [stoppedEv EXCEPT ![c] = 0]
                /\ cleanupRuns' = [cleanupRuns EXCEPT ![c] = 0]
           ELSE /\ ops' = [ops EXCEPT ![i] = Ended(@, "raised")]
                /\ UNCHANGED <<sessions, stoppedEv, cleanupRuns>>
    /\ UNCHANGED <<phase, runs, now, registered, table, persisted, worktrees,
                   branchTip, mainTip, topics, tunnels, used, creating, susp,
                   rec>>
    /\ UNCHANGED <<busVars, log, tracker, projects, codex>>

(***************************************************************************)
(* SessionManager.suspend_all_sessions, called by main() on shutdown       *)
(***************************************************************************)
SuspIdle == [pc |-> "idle", seen |-> {}, len |-> 0, chan |-> Null]

\* the dict iterator: the first entry of the table not yet visited
Unvisited(seen) == SelectSeq(table, LAMBDA c : c \notin seen)

\* Runs the loop from its head until the coroutine suspends, the loop ends,
\* or the dict iterator notices that the table changed size.
\* Returns [sessions, tunnels, cleanupRuns, pc, seen, chan].
RECURSIVE SuspendFrom(_, _, _, _, _)
SuspendFrom(seen, len, sess, tuns, cruns) ==
    IF Len(table) # len
    THEN [sessions |-> sess, tunnels |-> tuns, cleanupRuns |-> cruns,
          pc |-> "raised", seen |-> seen, chan |-> Null]
    ELSE IF Unvisited(seen) = <<>>
    THEN [sessions |-> sess, tunnels |-> tuns, cleanupRuns |-> cruns,
          pc |-> "save", seen |-> seen, chan |-> Null]
    ELSE LET c == Head(Unvisited(seen))
             s0 == sess[c]
             s1 == [s0 EXCEPT !.task = CancelTask(s0.task),
                              !.agent_session_id = HeldSid(s0)]
             cr == [cruns EXCEPT ![c] = Bump(@)]
         IN  IF c \in tuns
             THEN [sessions |-> [sess EXCEPT ![c] = s1], tunnels |-> tuns \ {c},
                   cleanupRuns |-> cr, pc |-> "cleanup",
                   seen |-> seen \cup {c}, chan |-> c]
             ELSE IF s1.agent.proc # "none"
             THEN [sessions |-> [sess EXCEPT ![c] = s1], tunnels |-> tuns,
                   cleanupRuns |-> cr, pc |-> "stop",
                   seen |-> seen \cup {c}, chan |-> c]
             ELSE SuspendFrom(seen \cup {c}, len,
                              [sess EXCEPT ![c] = [s1 EXCEPT !.state = "suspended"]],
                              tuns, cr)

\* applies the result of SuspendFrom: suspended again, returned after
\* _save_sessions(), or raised RuntimeError out of main()
SuspendApply(r, len) ==
    /\ sessions' = r.sessions
    /\ tunnels' = r.tunnels
    /\ cleanupRuns' = r.cleanupRuns
    /\ susp' = [pc |-> IF r.pc = "save" THEN "returned" ELSE r.pc,
                seen |-> r.seen, len |-> len, chan |-> r.chan]
    /\ phase' = IF r.pc \in {"save", "raised"} THEN "down" ELSE "suspend"
    /\ persisted' = IF r.pc = "save" THEN SaveSessions(table, r.sessions)
                    ELSE persisted
    /\ tracker' \in IF r.pc \in {"save", "raised"} THEN AtExit(tracker)
                  ELSE {tracker}

\* SIGINT/SIGTERM: main() wakes up and calls suspend_all_sessions()
Shutdown ==
    /\ phase = "up"
    /\ SuspendApply(SuspendFrom({}, Len(table), sessions, tunnels, cleanupRuns),
                    Len(table))
    /\ UNCHANGED <<runs, now, registered, table, worktrees, branchTip,
                   mainTip, topics, used, creating, ops, rec, stoppedEv>>
    /\ UNCHANGED <<busVars, log, projects, codex>>

SuspResumable == phase = "suspend" /\ ~CancelPending

\* _run_cleanup returned: agent.stop() is entered
SuspendAfterCleanup ==
    /\ SuspResumable /\ ~StopWoken /\ susp.pc = "cleanup"
    /\ LET c == susp.chan
       IN  IF sessions[c].agent.proc # "none"
           THEN /\ susp' = [susp EXCEPT !.pc = "stop"]
                /\ UNCHANGED <<sessions, tunnels, cleanupRuns, persisted, phase,
                               tracker>>
           ELSE SuspendApply(SuspendFrom(susp.seen, susp.len,
                    [sessions EXCEPT ![c].state = "suspended"], tunnels, cleanupRuns),
                    susp.len)
    /\ UNCHANGED <<runs, now, registered, table, worktrees, branchTip,
                   mainTip, topics, used, creating, ops, rec, stoppedEv>>
    /\ UNCHANGED <<busVars, log, projects, codex>>

\* agent.stop() returned (_alive = False, process gone): close the logger,
\* state = "suspended", next session
SuspendAgentStop ==
    /\ SuspResumable /\ susp.pc = "stop"
    /\ LET c == susp.chan
           s == sessions[c]
           a == [s.agent EXCEPT !.alive = FALSE, !.proc = "none"]
           s1 == [s EXCEPT !.agent = a, !.state = "suspended"]
       IN  SuspendApply(SuspendFrom(susp.seen, susp.len,
                                    [sessions EXCEPT ![c] = s1], tunnels, cleanupRuns),
                        susp.len)
    /\ UNCHANGED <<runs, now, registered, table, worktrees, branchTip,
                   mainTip, topics, used, creating, ops, rec, stoppedEv>>
    /\ UNCHANGED <<busVars, log, projects, codex>>

(***************************************************************************)
(* Process exit and start                                                  *)
(***************************************************************************)
NoSessions == [c \in Chan |-> NoSession]
NoOps == [i \in Call |-> Free]
NoCreates == [c \in Chan |-> Free]
NoCount == [c \in Chan |-> 0]
RecIdle == [pc |-> "idle", idx |-> 0, data |-> <<>>, recovered |-> <<>>,
            started |-> <<>>, raised |-> {}]

\* the supervisor dies without running suspend_all_sessions to its end
Crash ==
    /\ phase \in {"up", "suspend", "recover", "cleanup"}
    /\ runs < MaxRuns
    /\ phase' = "down"
    /\ susp' = [SuspIdle EXCEPT !.pc = "crashed"]
    /\ UNCHANGED <<runs, now, registered, sessions, table, persisted,
                   worktrees, branchTip, mainTip, topics, tunnels, used,
                   creating, ops, rec, stoppedEv, cleanupRuns>>
    /\ UNCHANGED <<busVars, log, tracker, projects, codex>>

\* a new supervisor process: nothing in memory; main() calls
\* recover_sessions, which reads sessions.json
Restart ==
    /\ phase = "down" /\ runs < MaxRuns
    /\ runs' = runs + 1
    /\ phase' = "recover"
    /\ sessions' = NoSessions
    /\ table' = <<>>
    /\ tunnels' = {}
    /\ ops' = NoOps
    /\ creating' = NoCreates
    /\ susp' = SuspIdle
    /\ stoppedEv' = NoCount
    /\ cleanupRuns' = NoCount
    /\ rec' = [RecIdle EXCEPT !.pc = "loop", !.idx = 1, !.data = persisted]
    /\ UNCHANGED <<now, registered, persisted, worktrees, branchTip, mainTip,
                   topics, used>>
    /\ subscribers' = NoSubscribers
    /\ queues' = <<>>
    /\ iters' = NoIters
    /\ tracker' = FreshTracker(tracker)
    /\ projects' = LoadStore(projects)
    /\ codex' = NewCodex
    /\ UNCHANGED log

(***************************************************************************)
(* SessionManager.recover_sessions and cleanup_orphan_worktrees            *)
(***************************************************************************)
\* Mutation of Recoverable: a record without agent session id is recovered.
Recoverable_WithoutId(r) ==
    /\ r.worktree_path \in worktrees
    /\ (r.project_name = ProjectName /\ registered)

\* the three `continue` tests of the recovery loop
Recoverable(r) ==
    /\ r.worktree_path \in worktrees
    /\ (r.project_name = ProjectName /\ registered)
    /\ r.agent_session_id # Null

\* Mutation of RecoveredSession: verbose takes the dataclass default.
RecoveredSession_QuietAlways(r) ==
    [name |-> r.name, project_name |-> r.project_name,
     project_path |-> r.project_path, worktree_path |-> r.worktree_path,
     channel_id |-> r.key,
     agent |-> StartedAgent(CreateAgent(Null), r.worktree_path,
                            r.agent_session_id),
     agent_session_id |-> r.agent_session_id, state |-> "idle",
     verbose |-> FALSE, managed_channel |-> r.managed_channel,
     template_name |-> r.template_name, created_at |-> r.created_at,
     task |-> "run", exit |-> "none", leaked |-> FALSE]

\* Session(...) built from a persisted record; state takes the dataclass
\* default
RecoveredSession(r) ==
    [name |-> r.name, project_name |-> r.project_name,
     project_path |-> r.project_path, worktree_path |-> r.worktree_path,
     channel_id |-> r.key,
     agent |-> StartedAgent(CreateAgent(Null), r.worktree_path,
                            r.agent_session_id),
     agent_session_id |-> r.agent_session_id, state |-> "idle",
     verbose |-> r.verbose, managed_channel |-> r.managed_channel,
     template_name |-> r.template_name, created_at |-> r.created_at,
     task |-> "run", exit |-> "none", leaked |-> FALSE]

\* first position >= k of a record that passes the tests, or Len + 1
RECURSIVE NextRecoverable(_, _)
NextRecoverable(data, k) ==
    IF k > Len(data) THEN k
    ELSE IF Recoverable(data[k]) THEN k
    ELSE NextRecoverable(data, k + 1)

\* the arguments of one agent.start call made by the recovery loop
StartCall(r) == [chan |-> r.key, wd |-> r.worktree_path, sid |-> r.agent_session_id]

\* runs the loop from position k until agent.start suspends or the loop
\* ends with _save_sessions() and main() goes on to the orphan cleanup
RecoverFrom(k, sess, tbl, recovered, raised) ==
    LET n == NextRecoverable(rec.data, k)
    IN  /\ sessions' = sess
        /\ table' = tbl
        /\ IF n > Len(rec.data)
           THEN /\ persisted' = SaveSessions(tbl, sess)
                /\ rec' = [rec EXCEPT !.pc = "returned", !.idx = n,
                                      !.recovered = recovered,
                                      !.raised = raised]
                /\ phase' = "cleanup"
           ELSE /\ rec' = [rec EXCEPT !.pc = "start", !.idx = n,
                                      !.recovered = recovered,
                                      !.raised = raised,
                                      !.started = Append(@, StartCall(rec.data[n]))]
                /\ UNCHANGED <<persisted, phase>>

RecoverLoop ==
    /\ phase = "recover" /\ rec.pc = "loop"
    /\ RecoverFrom(1, sessions, table, <<>>, {})
    /\ UNCHANGED <<runs, now, registered, worktrees, branchTip, mainTip,
                   topics, tunnels, used, creating, ops, susp, stoppedEv,
                   cleanupRuns>>
    /\ UNCHANGED <<busVars, log, tracker, projects, codex>>

\* Mutation of RecoverStarted: every recovered session is stored under the
\* key of the first record.
RecoverStarted_UnderFirstKey(ok) ==
    /\ phase = "recover" /\ rec.pc = "start" /\ ~WakePending
    /\ LET r == rec.data[rec.idx]
           c == rec.data[1].key
       IN  IF ok
           THEN RecoverFrom(rec.idx + 1,
                            [sessions EXCEPT ![c] = RecoveredSession(r)],
                            IF InTable(c) THEN table ELSE Append(table, c),
                            Append(rec.recovered, c), rec.raised)
           ELSE RecoverFrom(rec.idx + 1, sessions, table, rec.recovered, rec.raised \cup {c})
    /\ UNCHANGED <<runs, now, registered, worktrees, branchTip, mainTip,
                   topics, tunnels, used, creating, ops, susp, stoppedEv,
                   cleanupRuns>>
    /\ UNCHANGED <<busVars, log, tracker, projects, codex>>

\* agent.start(worktree_path, agent_session_id) returned or raised
RecoverStarted(ok) ==
    /\ phase = "recover" /\ rec.pc = "start" /\ ~WakePending
    /\ LET r == rec.data[rec.idx]
           c == r.key
       IN  IF ok
           THEN RecoverFrom(rec.idx + 1,
                            [sessions EXCEPT ![c] = RecoveredSession(r)],
                            IF InTable(c) THEN table ELSE Append(table, c),
                            Append(rec.recovered, c), rec.raised)
           ELSE RecoverFrom(rec.idx + 1, sessions, table, rec.recovered, rec.raised \cup {c})
    /\ UNCHANGED <<runs, now, registered, worktrees, branchTip, mainTip,
                   topics, tunnels, used, creating, ops, susp, stoppedEv,
                   cleanupRuns>>
    /\ UNCHANGED <<busVars, log, tracker, projects, codex>>

\* `git worktree list --porcelain`: working tree -> branch checked out
GitWorktreeList ==
    [w \in worktrees |-> IF w = MainWorktree THEN MainBranch ELSE BranchName(w[3])]

\* Mutation of ListAfkWorktrees: every working tree is listed.
ListAfkWorktrees_All == GitWorktreeList

\* git_worktree.list_afk_worktrees: the entries whose branch starts with afk/
ListAfkWorktrees ==
    [w \in {x \in DOMAIN GitWorktreeList : GitWorktreeList[x][1] = "afk"}
        |-> GitWorktreeList[w]]

\* cleanup_orphan_worktrees: remove every listed worktree that is not the
\* workspace of a session in the table; then main() starts serving
CleanupOrphans ==
    /\ phase = "cleanup" /\ ~WakePending
    /\ LET active == {sessions[c].worktree_path : c \in Range(table)}
           listed == IF registered THEN ListAfkWorktrees ELSE <<>>
           orphans == {w \in DOMAIN listed : w \notin active}
       IN  /\ worktrees' = worktrees \ orphans
           /\ branchTip' = [b \in DOMAIN branchTip \ {listed[w] : w \in orphans}
                              |-> branchTip[b]]
    /\ phase' = "up"
    /\ rec' = [rec EXCEPT !.pc = "done"]
    /\ UNCHANGED <<runs, now, registered, sessions, table, persisted,
                   mainTip, topics, tunnels, used, creating, ops, susp,
                   stoppedEv, cleanupRuns>>
    /\ UNCHANGED <<busVars, log, tracker, projects, codex>>

(***************************************************************************)
(* The system                                                              *)
(***************************************************************************)
\* everything but the branches of the repository
BootBase ==
    /\ phase = "up"
    /\ runs = 1
    /\ now = 0
    /\ registered = TRUE
    /\ sessions = NoSessions
    /\ table = <<>>
    /\ persisted = <<>>
    /\ worktrees = {MainWorktree}
    /\ mainTip = {}
    /\ topics = {}
    /\ tunnels = {}
    /\ used = {}
    /\ creating = NoCreates
    /\ ops = NoOps
    /\ susp = SuspIdle
    /\ rec = RecIdle
    /\ stoppedEv = NoCount
    /\ cleanupRuns = NoCount
    /\ subscribers = NoSubscribers
    /\ queues = <<>>
    /\ iters = NoIters
    /\ projects = NewStore
    /\ codex = NewCodex


\* the repository has the branch main only
BootCore == BootBase /\ branchTip = <<>>

Boot == BootCore /\ tracker = NewTracker

Init == Boot /\ log = Off

\* the same program with the log switched on
InitLogged == Boot /\ log = <<>>


\* One session, one request handler: every step of the session's life in
\* one process, with the tunnel capability and the shutdown path.
NextOne ==
    \/ \E c \in Chan, ts \in Clock : used = {} /\ CreateStart(c, FALSE, Null, ts)
    \/ \E c \in Chan : CreateChannel(c)
    \/ \E c \in Chan, ok \in BOOLEAN : CreateFinish(c, ok)
    \/ \E c \in Chan, ty \in {"assistant", "permission_request", "result"} :
            ReaderMsg(c, Raw(ty, Null))
    \/ \E c \in Chan : ReaderMsg(c, Raw("system", "S1"))
    \/ \E c \in Chan : ReaderStreamEnd(c)
    \/ \E c \in Chan : ReaderCancelled(c)
    \/ \E c \in Chan : ReaderCleanupDone(c)
    \/ \E c \in Chan : SendToSession(c)
    \/ \E c \in Chan : SendPermissionResponse(c, "req-1", TRUE)
    \/ \E c \in Chan : AgentExit(c)
    \/ \E c \in Chan : StartTunnel(c)
    \/ \E c \in Chan : StopStart("chat", c)
    \/ \E c \in Chan : CompleteStart("chat", c)
    \/ OpAfterCleanup("chat")
    \/ OpAgentStop("chat")
    \/ StopWorktree("chat")
    \/ StopRemove("chat")
    \/ \E ok \in BOOLEAN : OpClose("chat", ok)
    \/ \E ch \in BOOLEAN, mv \in BOOLEAN, ok \in BOOLEAN :
            CompleteRebase("chat", ch, mv, ok)
    \/ CompleteMerge("chat")
    \/ \E ok \in BOOLEAN : CompleteRestart("chat", ok)
    \/ Shutdown
    \/ SuspendAfterCleanup
    \/ SuspendAgentStop

SpecOne == Init /\ [][NextOne]_vars

\* stop_session called twice, one call after the other: the chat handler
\* calls stop_session(c) while no create_session for c is in flight, and
\* when that call has ended the web handler calls stop_session(c) again.
\* The session of c, its agent, tunnels and the shutdown run alongside.
NextTwice ==
    \/ \E c \in Chan, ts \in Clock :
            used = {} /\ ops["chat"] = Free /\ CreateStart(c, FALSE, Null, ts)
    \/ \E c \in Chan : CreateChannel(c)
    \/ \E c \in Chan, ok \in BOOLEAN : CreateFinish(c, ok)
    \/ \E c \in Chan, ty \in {"assistant", "permission_request", "result"} :
            ReaderMsg(c, Raw(ty, Null))
    \/ \E c \in Chan : ReaderMsg(c, Raw("system", "S1"))
    \/ \E c \in Chan : ReaderStreamEnd(c)
    \/ \E c \in Chan : ReaderCancelled(c)
    \/ \E c \in Chan : ReaderCleanupDone(c)
    \/ \E c \in Chan : SendToSession(c)
    \/ \E c \in Chan : SendPermissionResponse(c, "req-1", TRUE)
    \/ \E c \in Chan : AgentExit(c)
    \/ \E c \in Chan : StartTunnel(c)
    \/ \E c \in Chan :
            /\ ops["chat"] = Free
            /\ creating[c] = Free \/ creating[c].pc \in {"returned", "raised"}
            /\ StopStart("chat", c)
    \/ OpAfterCleanup("chat")
    \/ OpAgentStop("chat")
    \/ StopWorktree("chat")
    \/ StopRemove("chat")
    \/ \E ok \in BOOLEAN : OpClose("chat", ok)
    \/ /\ ops["chat"].pc = "done" /\ ops["web"] = Free
       /\ StopStart("web", ops["chat"].chan)
    \/ Shutdown
    \/ SuspendAfterCleanup
    \/ SuspendAgentStop

SpecTwice == Init /\ [][NextTwice]_vars

\* Two sessions of the project, created in any seconds of the clock (also in
\* the same one), stopped and completed by one handler.
NextPair ==
    \/ \E c \in Chan, ts \in Clock : CreateStart(c, FALSE, Null, ts)
    \/ \E c \in Chan : CreateChannel(c)
    \/ \E c \in Chan, ok \in BOOLEAN : CreateFinish(c, ok)
    \/ \E c \in Chan : ReaderMsg(c, Raw("system", "S1"))
    \/ \E c \in Chan : ReaderStreamEnd(c)
    \/ \E c \in Chan : ReaderCancelled(c)
    \/ \E c \in Chan : AgentExit(c)
    \/ \E c \in Chan : StopStart("chat", c)
    \/ \E c \in Chan : CompleteStart("chat", c)
    \/ OpAgentStop("chat")
    \/ StopWorktree("chat")
    \/ StopRemove("chat")
    \/ \E ok \in BOOLEAN : OpClose("chat", ok)
    \/ \E ch \in BOOLEAN, mv \in BOOLEAN, ok \in BOOLEAN :
            CompleteRebase("chat", ch, mv, ok)
    \/ CompleteMerge("chat")
    \/ \E ok \in BOOLEAN : CompleteRestart("chat", ok)

SpecPair == Init /\ [][NextPair]_vars

\* Two sessions over two supervisor runs: created, given their agent
\* session ids, stopped, suspended by a shutdown or lost in a crash; the
\* next run recovers them and removes the orphan worktrees.
NextBoot ==
    \/ \E c \in Chan, ts \in Clock : CreateStart(c, FALSE, Null, ts)
    \/ \E c \in Chan : CreateChannel(c)
    \/ \E c \in Chan, ok \in BOOLEAN : CreateFinish(c, ok)
    \/ \E c \in Chan : ReaderMsg(c, Raw("system", "S1"))
    \/ \E c \in Chan : ReaderCancelled(c)
    \/ \E b \in BOOLEAN : SetRegistered(b)
    \/ \E c \in Chan : StopStart("chat", c)
    \/ OpAgentStop("chat")
    \/ StopWorktree("chat")
    \/ StopRemove("chat")
    \/ \E ok \in BOOLEAN : OpClose("chat", ok)
    \/ Shutdown
    \/ SuspendAgentStop
    \/ Crash
    \/ Restart
    \/ RecoverLoop
    \/ \E ok \in BOOLEAN : RecoverStarted(ok)
    \/ CleanupOrphans

SpecBoot == Init /\ [][NextBoot]_vars

\* One session created with any options (verbose, template, managed or
\* supplied channel), used for a while, then suspended by a shutdown or lost
\* in a crash, and reloaded by recover_sessions in the next supervisor run.
NextTrip ==
    \/ \E c \in Chan, v \in BOOLEAN, t \in Templates, ts \in Clock :
            used = {} /\ CreateStart(c, v, t, ts)
    \/ \E c \in Chan : CreateChannel(c)
    \/ \E c \in Chan, ok \in BOOLEAN : CreateFinish(c, ok)
    \/ \E c \in Chan, ty \in {"assistant", "permission_request", "result"} :
            ReaderMsg(c, Raw(ty, Null))
    \/ \E c \in Chan, sid \in Sid : ReaderMsg(c, Raw("system", sid))
    \/ \E c \in Chan : ReaderCancelled(c)
    \/ \E c \in Chan : SendToSession(c)
    \/ \E c \in Chan : SendPermissionResponse(c, "req-1", TRUE)
    \/ Shutdown
    \/ SuspendAgentStop
    \/ Crash
    \/ Restart
    \/ RecoverLoop
    \/ \E ok \in BOOLEAN : RecoverStarted(ok)
    \/ CleanupOrphans

SpecTrip == Init /\ [][NextTrip]_vars

\* The event bus alone: components subscribe, unsubscribe, publish events
\* of two types and read their queues; a consumer iterates with
\* iter_events and is cancelled or leaves its loop.
BusTypes == {"AgentSystemEvent", "AgentStoppedEvent"}
BusEvents ==
    {AgentSystemEvent("web:a1", sid) : sid \in Sid}
        \cup {AgentStoppedEvent("web:a1", SessionName(ProjectName, 0))}

NextBus ==
    \/ \E T \in BusTypes : Subscribe(T)
    \/ \E T \in BusTypes, q \in 0..MaxQueues : Unsubscribe(T, q)
    \/ \E ev \in BusEvents : Room(ev.type) /\ PublishEvent(ev)
    \/ \E q \in 1..MaxQueues : Get(q)
    \/ \E k \in Consumers, T \in BusTypes : IterStart(k, T)
    \/ \E k \in Consumers : IterNext(k)
    \/ \E k \in Consumers : IterResume(k)
    \/ \E k \in Consumers : IterCancel(k)
    \/ \E k \in Consumers : IterBreak(k)
    \/ \E k \in Consumers : IterFinalize(k)

SpecBus == Init /\ [][NextBus]_vars

\* The bus with bounded queues, as test_queue_full_logs_warning sets it up:
\* a queue of size one replaces the subscribers of a type, further
\* components subscribe after it, events are published and taken.
NextFull ==
    \/ \E T \in BusTypes : InstallBounded(T, 1)
    \/ \E T \in BusTypes : Subscribe(T)
    \/ \E T \in BusTypes, q \in 0..MaxQueues : Unsubscribe(T, q)
    \/ \E ev \in BusEvents : Room(ev.type) /\ PublishEvent(ev)
    \/ \E q \in 1..MaxQueues : Get(q)

SpecFull == Init /\ [][NextFull]_vars

\* One session whose agent emits raw messages of every type, with and
\* without their optional keys, while the chat answers the permission
\* request that is waiting (with any id, allowed or denied) and the agent
\* may exit; the log is switched on.  Costs are counted in
\* hundredths of a dollar.
EvMsgs ==
    {Raw("system", "S1"),
     [type |-> "assistant", content |-> PyList(<<DictBlock("text")>>)],
     [type |-> "assistant",
      message |-> [content |-> PyList(<<DictBlock("tool_use")>>)]],
     [type |-> "permission_request", id |-> "req-1", tool_name |-> "Bash"],
     [type |-> "permission_request", id |-> "req-2",
      tool_name |-> "ExitPlanMode"],
     [type |-> "permission_request"],
     [type |-> "result", total_cost_usd |-> 1, duration_ms |-> 1234],
     [type |-> "result"],
     [type |-> "file_output", file_path |-> "/tmp/report.md",
      file_name |-> "report.md"]}

RequestIds == {"req-1", "req-2"}

\* the log can take n more entries within the bound
LogRoom(n) == log # Off => Len(log) + n <= MaxLog

NextEvents ==
    \/ \E c \in Chan, v \in BOOLEAN :
            used = {} /\ CreateStart(c, v, Null, 0)
    \/ \E c \in Chan : CreateChannel(c)
    \/ \E c \in Chan : CreateFinish(c, TRUE)
    \/ \E c \in Chan, msg \in EvMsgs : LogRoom(3) /\ ReaderMsg(c, msg)
    \/ \E c \in Chan : SendToSession(c)
    \/ \E c \in Chan, id \in RequestIds, allowed \in BOOLEAN :
            /\ LogRoom(1) /\ Live(c)
            /\ sessions[c].state = "waiting_permission"
            /\ SendPermissionResponse(c, id, allowed)
    \/ \E c \in Chan : AgentExit(c)
    \/ \E c \in Chan : LogRoom(1) /\ ReaderStreamEnd(c)

SpecEvents == InitLogged /\ [][NextEvents]_vars

\* The classifier's inputs: a string, or a list of up to MaxBlocks blocks,
\* each a dict of type text / tool_use / tool_result, a dict without a
\* type, or a bare string.
Blocks == {DictBlock(ty) : ty \in {"text", "tool_use", "tool_result"}}
              \cup {[py |-> "dict"], PyStr("text")}
BlockLists == UNION {[1..n -> Blocks] : n \in 0..MaxBlocks}
Contents == {PyStr("hello"), PyStr("")} \cup {PyList(b) : b \in BlockLists}

\* an assistant message carries its content at the top level or inside
\* its "message"
AssistantMsgs ==
    {[type |-> "assistant", content |-> x] : x \in Contents}
        \cup {[type |-> "assistant", message |-> [content |-> x]] : x \in Contents}
        \cup {[type |-> "assistant"]}

\* One session whose agent emits assistant messages with every content of
\* Contents; a component subscribed to AgentAssistantEvent takes each
\* event before the next message is read.
Drained == \A i \in 1..Len(queues) : queues[i].items = <<>>

NextClassify ==
    \/ \E c \in WebChan, v \in BOOLEAN :
            used = {} /\ CreateStart(c, v, Null, 0)
    \/ \E c \in WebChan : CreateFinish(c, TRUE)
    \/ subscribers["AgentAssistantEvent"] = <<>> /\ Subscribe("AgentAssistantEvent")
    \/ \E c \in WebChan : ReaderMsg(c, Raw("system", "S1"))
    \/ \E c \in WebChan : SendToSession(c)
    \/ \E c \in WebChan, msg \in AssistantMsgs : Drained /\ ReaderMsg(c, msg)
    \/ \E q \in 1..MaxQueues : Get(q)

SpecClassify == Init /\ [][NextClassify]_vars

\* One session at a time through its whole life: created, given its agent
\* session id, stopped or completed from the chat, and carried over to the
\* next supervisor process by a crash and recovery.
NextNames ==
    \/ \E c \in Chan, ts \in Clock :
            table = <<>> /\ creating = NoCreates /\ CreateStart(c, FALSE, Null, ts)
    \/ \E c \in Chan : CreateChannel(c)
    \/ \E c \in Chan : CreateFinish(c, TRUE)
    \/ \E c \in Chan : ReaderMsg(c, Raw("system", "S1"))
    \/ \E c \in Chan : ReaderCancelled(c)
    \/ \E c \in Chan : StopStart("chat", c)
    \/ \E c \in Chan : CompleteStart("chat", c)
    \/ OpAgentStop("chat")
    \/ StopWorktree("chat")
    \/ StopRemove("chat")
    \/ \E ok \in BOOLEAN : OpClose("chat", ok)
    \/ \E ch \in BOOLEAN, mv \in BOOLEAN, ok \in BOOLEAN :
            CompleteRebase("chat", ch, mv, ok)
    \/ CompleteMerge("chat")
    \/ \E ok \in BOOLEAN : CompleteRestart("chat", ok)
    \/ Crash
    \/ Restart
    \/ RecoverLoop
    \/ \E ok \in BOOLEAN : RecoverStarted(ok)
    \/ CleanupOrphans

SpecNames == Init /\ [][NextNames]_vars

\* One session whose chat sends texts, also to channels without a session
\* and after the agent has exited or the session was stopped; the log is
\* switched on.
Texts == {"hi", "go"}

NextSend ==
    \/ \E c \in Chan : used = {} /\ CreateStart(c, FALSE, Null, 0)
    \/ \E c \in Chan : CreateChannel(c)
    \/ \E c \in Chan : CreateFinish(c, TRUE)
    \/ \E c \in Chan, ty \in {"system", "result"} :
            LogRoom(3) /\ ReaderMsg(c, Raw(ty, "S1"))
    \/ \E c \in Chan, text \in Texts : LogRoom(3) /\ CmdSendMessage(c, text)
    \/ \E c \in Chan : AgentExit(c)
    \/ \E c \in Chan : LogRoom(1) /\ ReaderStreamEnd(c)
    \/ \E c \in Chan : ReaderCancelled(c)
    \/ \E c \in Chan : StopStart("chat", c)
    \/ OpAgentStop("chat")
    \/ StopWorktree("chat")
    \/ StopRemove("chat")
    \/ \E ok \in BOOLEAN : OpClose("chat", ok)

SpecSend == InitLogged /\ [][NextSend]_vars

\* The subprocess tracker through its callers and across a crash and a
\* restart of the supervisor; the first process may find a PID file that an
\* earlier process left.
StaleLines == {Str(7), <<" ", "1", "2">>, <<"x">>, <<>>}
StaleFiles == {NoFile} \cup
              {TextFile(l) : l \in UNION {[1..n -> StaleLines] : n \in 0..MaxLines}}

InitTracker ==
    /\ BootCore /\ log = Off
    /\ \E f \in StaleFiles : tracker = [NewTracker EXCEPT !.file = f]

NextTracker ==
    \/ SetPidFile
    \/ \E pid \in Pids : Track(pid)
    \/ \E pid \in Pids : Untrack(pid)
    \/ KillAll
    \/ CleanupStalePids
    \/ \E pid \in Pids : RedirectStart(pid)
    \/ RedirectStop
    \/ \E pid \in Pids : ChildExit(pid)
    \/ Shutdown
    \/ Crash
    \/ Restart
    \/ RecoverLoop
    \/ CleanupOrphans

SpecTracker == InitTracker /\ [][NextTracker]_vars

\* The project store through add and remove, across a crash and a restart.
NextProjects ==
    \/ \E name \in Names, path \in Paths : ProjectAdd(name, path)
    \/ \E name \in Names : ProjectRemove(name)
    \/ Crash
    \/ Restart
    \/ RecoverLoop
    \/ CleanupOrphans

SpecProjects == Init /\ [][NextProjects]_vars

\* create_session for both kinds of channel, with the agent start failing
\* or not, in a repository that may hold a branch afk/proj-1 left without
\* its working tree, on which git worktree add -b fails.
LeftBranch == [b \in {BranchName(SessionName(ProjectName, 1))} |-> {}]

InitCreate ==
    /\ BootBase /\ tracker = NewTracker /\ log = Off
    /\ branchTip \in {<<>>, LeftBranch}

NextCreate ==
    \/ \E c \in Chan, ts \in Clock : CreateStart(c, FALSE, Null, ts)
    \/ \E c \in Chan : CreateChannel(c)
    \/ \E c \in Chan, ok \in BOOLEAN : CreateFinish(c, ok)
    \/ \E c \in Chan : ReaderMsg(c, Raw("system", "S1"))
    \/ \E c \in Chan : ReaderStreamEnd(c)
    \/ \E c \in Chan : ReaderCancelled(c)
    \/ \E c \in Chan : AgentExit(c)
    \/ \E c \in Chan : StopStart("chat", c)
    \/ OpAgentStop("chat")
    \/ StopWorktree("chat")
    \/ StopRemove("chat")
    \/ \E ok \in BOOLEAN : OpClose("chat", ok)

SpecCreate == InitCreate /\ [][NextCreate]_vars

\* One session and two request handlers (the chat and the web control
\* plane) that call stop_session and complete_session on it in any
\* interleaving.
NextRace ==
    \/ \E c \in Chan, ts \in Clock : used = {} /\ CreateStart(c, FALSE, Null, ts)
    \/ \E c \in Chan : CreateChannel(c)
    \/ \E c \in Chan : CreateFinish(c, TRUE)
    \/ \E c \in Chan : ReaderMsg(c, Raw("system", "S1"))
    \/ \E c \in Chan : ReaderCancelled(c)
    \/ \E i \in Call, c \in Chan : StopStart(i, c)
    \/ \E i \in Call, c \in Chan : CompleteStart(i, c)
    \/ \E i \in Call : OpAgentStop(i)
    \/ \E i \in Call : StopWorktree(i)
    \/ \E i \in Call : StopRemove(i)
    \/ \E i \in Call, ok \in BOOLEAN : OpClose(i, ok)
    \/ \E i \in Call, ch \in BOOLEAN, mv \in BOOLEAN, ok \in BOOLEAN :
            CompleteRebase(i, ch, mv, ok)
    \/ \E i \in Call : CompleteMerge(i)
    \/ \E i \in Call : CompleteRestart(i, TRUE)

SpecRace == Init /\ [][NextRace]_vars

\* Sessions of both kinds of channel, created in any seconds of the clock
\* (also in the same one, so that two share a workspace), with or without a
\* tunnel, and stopped by one handler, one call at a time.
NextStop ==
    \/ \E c \in Chan, ts \in Clock : CreateStart(c, FALSE, Null, ts)
    \/ \E c \in Chan : CreateChannel(c)
    \/ \E c \in Chan : CreateFinish(c, TRUE)
    \/ \E c \in Chan : ReaderMsg(c, Raw("system", "S1"))
    \/ \E c \in Chan : ReaderCancelled(c)
    \/ \E c \in Chan : StartTunnel(c)
    \/ \E c \in Chan : StopStart("chat", c)
    \/ OpAfterCleanup("chat")
    \/ OpAgentStop("chat")
    \/ StopWorktree("chat")
    \/ StopRemove("chat")
    \/ \E ok \in BOOLEAN : OpClose("chat", ok)

SpecStop == Init /\ [][NextStop]_vars

\* A Codex agent whose send_message is called by both handlers; the
\* children write their lines and exit while the reader tasks run.
NextCodex ==
    \/ CodexStart
    \/ \E i \in Call : CodexSendMessage(i)
    \/ \E i \in Call : CodexProcessWaited(i)
    \/ \E i \in Call : CodexTaskAwaited(i)
    \/ \E i \in Call, n \in 0..MaxOut : CodexSpawned(i, n)
    \/ \E k \in 1..MaxChildren : CodexReaderRun(k)
    \/ \E k \in 1..MaxChildren : CodexReaderLine(k)
    \/ \E k \in 1..MaxChildren : CodexReaderEof(k)
    \/ \E p \in 1..MaxChildren : CodexChildExit(p)

SpecCodex == Init /\ [][NextCodex]_vars

Next ==
    \/ \E c \in Chan, v \in BOOLEAN, t \in Templates, ts \in Clock :
            CreateStart(c, v, t, ts)
    \/ \E c \in Chan : CreateChannel(c)
    \/ \E c \in Chan, ok \in BOOLEAN : CreateFinish(c, ok)
    \/ \E c \in Chan, ty \in {"assistant", "permission_request", "result"} :
            ReaderMsg(c, Raw(ty, Null))
    \/ \E c \in Chan, sid \in Sid : ReaderMsg(c, Raw("system", sid))
    \/ \E c \in Chan : ReaderStreamEnd(c)
    \/ \E c \in Chan : ReaderCancelled(c)
    \/ \E c \in Chan : ReaderCleanupDone(c)
    \/ \E c \in Chan : SendToSession(c)
    \/ \E c \in Chan : SendPermissionResponse(c, "req-1", TRUE)
    \/ \E c \in Chan : AgentExit(c)
    \/ \E c \in Chan : StartTunnel(c)
    \/ \E b \in BOOLEAN : SetRegistered(b)
    \/ \E i \in Call, c \in Chan : StopStart(i, c)
    \/ \E i \in Call, c \in Chan : CompleteStart(i, c)
    \/ \E i \in Call : OpAfterCleanup(i)
    \/ \E i \in Call : OpAgentStop(i)
    \/ \E i \in Call : StopWorktree(i)
    \/ \E i \in Call : StopRemove(i)
    \/ \E i \in Call, ok \in BOOLEAN : OpClose(i, ok)
    \/ \E i \in Call, ch \in BOOLEAN, mv \in BOOLEAN, ok \in BOOLEAN :
            CompleteRebase(i, ch, mv, ok)
    \/ \E i \in Call : CompleteMerge(i)
    \/ \E i \in Call, ok \in BOOLEAN : CompleteRestart(i, ok)
    \/ Shutdown
    \/ SuspendAfterCleanup
    \/ SuspendAgentStop
    \/ Crash
    \/ Restart
    \/ RecoverLoop
    \/ \E ok \in BOOLEAN : RecoverStarted(ok)
    \/ CleanupOrphans
    \/ \E c \in Chan, msg \in EvMsgs \cup AssistantMsgs : ReaderMsg(c, msg)
    \/ \E c \in Chan, id \in RequestIds, allowed \in BOOLEAN :
            SendPermissionResponse(c, id, allowed)
    \/ \E T \in EvType : Subscribe(T)
    \/ \E T \in EvType, q \in 0..MaxQueues : Unsubscribe(T, q)
    \/ \E ev \in BusEvents : Room(ev.type) /\ PublishEvent(ev)
    \/ \E q \in 1..MaxQueues : Get(q)
    \/ \E T \in EvType : InstallBounded(T, 1)
    \/ \E k \in Consumers, T \in EvType : IterStart(k, T)
    \/ \E k \in Consumers : IterNext(k)
    \/ \E k \in Consumers : IterResume(k)
    \/ \E k \in Consumers : IterCancel(k)
    \/ \E k \in Consumers : IterBreak(k)
    \/ \E k \in Consumers : IterFinalize(k)
    \/ \E c \in Chan, text \in Texts : CmdSendMessage(c, text)
    \/ SetPidFile
    \/ \E pid \in Pids : Track(pid)
    \/ \E pid \in Pids : Untrack(pid)
    \/ KillAll
    \/ CleanupStalePids
    \/ \E pid \in Pids : RedirectStart(pid)
    \/ RedirectStop
    \/ \E pid \in Pids : ChildExit(pid)
    \/ \E name \in Names, path \in Paths : ProjectAdd(name, path)
    \/ \E name \in Names : ProjectRemove(name)
    \/ CodexStart
    \/ \E i \in Call : CodexSendMessage(i)
    \/ \E i \in Call : CodexProcessWaited(i)
    \/ \E i \in Call : CodexTaskAwaited(i)
    \/ \E i \in Call, n \in 0..MaxOut : CodexSpawned(i, n)
    \/ \E k \in 1..MaxChildren : CodexReaderRun(k)
    \/ \E k \in 1..MaxChildren : CodexReaderLine(k)
    \/ \E k \in 1..MaxChildren : CodexReaderEof(k)
    \/ \E p \in 1..MaxChildren : CodexChildExit(p)

Spec == Init /\ [][Next]_vars

TypeOK ==
    /\ phase \in {"up", "suspend", "down", "recover", "cleanup"}
    /\ runs \in 1..MaxRuns
    /\ now \in 0..MaxTick
    /\ Range(table) \subseteq Chan
    /\ \A c \in Range(table) : Live(c)

(***************************************************************************)
(* Properties                                                              *)
(***************************************************************************)
\* The lifecycle state table of the specification.
StateTable ==
    [idle |-> {"running", "stopped", "suspended"},
     running |-> {"idle", "waiting_permission", "stopped"},
     waiting_permission |-> {"running", "stopped"},
     suspended |-> {},
     stopped |-> {}]

\* C1: every change of the lifecycle state of a session object is a
\* transition of the state table; in particular nothing leaves stopped and
\* suspended is left only by recovery, which builds a new session object.
C1_EveryChangeFollowsTable ==
    [][\A c \in Chan :
          (Live(c) /\ sessions'[c] # NoSession
                   /\ sessions'[c].state # sessions[c].state)
          => sessions'[c].state \in StateTable[sessions[c].state]]_vars

\* The reader task of c ends in this step.
ReaderEnds(c) ==
    /\ Live(c) /\ sessions'[c] # NoSession
    /\ sessions[c].task # "done" /\ sessions'[c].task = "done"

\* The stream of c ends in this step while nothing is in progress.
CrashStep(c) ==
    /\ Live(c) /\ sessions'[c] # NoSession
    /\ sessions[c].exit = "none" /\ sessions'[c].exit = "crash"

\* C2 as stated: when the stream of a session ends or fails while no stop,
\* complete or suspend call for it is in progress, the state becomes
\* stopped and the cleanup callbacks run in that step, the reader has
\* published exactly one AgentStopped event when it ends, and the agent of
\* the session is not started again.
C2_CrashPathAsStated ==
    [][\A c \in Chan :
          /\ CrashStep(c) =>
                /\ sessions'[c].state = "stopped"
                /\ cleanupRuns'[c] = cleanupRuns[c] + 1
          /\ (ReaderEnds(c) /\ sessions'[c].exit = "crash") => stoppedEv'[c] = 1
          /\ (Live(c) /\ sessions'[c] # NoSession
                /\ sessions[c].exit = "crash" /\ sessions'[c].exit = "crash")
             => ~IsAlive(sessions'[c].agent)]_vars

\* C2 amended: as C2, where the reader publishes exactly one AgentStopped
\* event unless a stop, complete or suspend call that began after the
\* stream ended cancels it while it awaits the cleanup callbacks; then it
\* ends without publishing.
C2_CrashPath ==
    [][\A c \in Chan :
          /\ CrashStep(c) =>
                /\ sessions'[c].state = "stopped"
                /\ cleanupRuns'[c] = cleanupRuns[c] + 1
          /\ (ReaderEnds(c) /\ sessions'[c].exit = "crash") =>
                stoppedEv'[c] = IF sessions[c].task = "cancelcleanup" THEN 0 ELSE 1
          /\ (Live(c) /\ sessions'[c] # NoSession
                /\ sessions[c].exit = "crash" /\ sessions'[c].exit = "crash")
             => ~IsAlive(sessions'[c].agent)]_vars

\* a session whose stream ended by itself, after the whole crash path
C2_Witness ==
    \E c \in Chan :
        /\ Live(c) /\ sessions[c].exit = "crash" /\ sessions[c].task = "done"
        /\ sessions[c].state = "stopped" /\ ~IsAlive(sessions[c].agent)
        /\ stoppedEv[c] = 1 /\ cleanupRuns[c] = 1

\* C3: a reader cancelled by stop_session or complete_session ends without
\* publishing: while the supervisor is up (only these two calls cancel a
\* reader then), no step in which a cancelled reader runs raises the number
\* of AgentStopped events of its channel.
C3_CancelledReaderSilent ==
    [][\A c \in Chan :
          (/\ phase = "up" /\ Live(c) /\ sessions'[c] # NoSession
           /\ sessions[c].task = "cancelling" /\ sessions'[c].exit = "cancel")
          => stoppedEv'[c] = stoppedEv[c]]_vars

\* C4: the first of two stop_session(c) calls made one after the other ends
\* without raising and returns true iff c had a session when it was made;
\* the second returns false at once and changes neither the session table,
\* the persisted table, the worktrees and branches nor the channels.
C4_StopTwice ==
    [][/\ (ops["chat"] = Free /\ ops'["chat"] # Free) =>
            IF InTable(ops'["chat"].chan)
            THEN ops'["chat"].pc # "done"
            ELSE ops'["chat"].pc = "done" /\ ops'["chat"].ret = "false"
       /\ (ops["chat"].pc \notin {"free", "done"} /\ ops'["chat"].pc = "done") =>
            ops'["chat"].ret = "true"
       /\ (ops["web"] = Free /\ ops'["web"] # Free) =>
            /\ ops'["web"].pc = "done" /\ ops'["web"].ret = "false"
            /\ UNCHANGED <<sessions, table, persisted, worktrees, branchTip,
                           mainTip, topics, tunnels>>]_vars

\* both calls have returned: the first true, the second false
C4_Witness ==
    /\ ops["chat"].pc = "done" /\ ops["chat"].kind = "stop"
    /\ ops["chat"].ret = "true"
    /\ ops["web"].pc = "done" /\ ops["web"].kind = "stop"
    /\ ops["web"].ret = "false" /\ ops["web"].chan = ops["chat"].chan

\* C5: when complete_session(c) returns (false, detail) for an existing
\* session, the session is in the table under c with state idle, its
\* workspace and branch exist, its reader task is running and its agent is
\* alive, started on the workspace of the session with the agent session id
\* the session held before the call.
C5_FailedCompleteLeavesSessionUsable ==
    [][\A i \in Call :
          (ops[i].pc = "restart" /\ ops'[i].pc = "done" /\ ops'[i].ret = "false")
          => LET c == ops[i].chan
                 s == sessions'[c]
             IN  /\ c \in Range(table') /\ s.channel_id = c
                 /\ s.state = "idle"
                 /\ s.worktree_path \in worktrees'
                 /\ BranchName(s.name) \in DOMAIN branchTip'
                 /\ s.task = "run" /\ IsAlive(s.agent)
                 /\ s.agent.wd = s.worktree_path
                 /\ s.agent.resume = ops[i].held]_vars

\* complete_session of handler i fast-forwards main in this step
MergeSucceeds(i) ==
    /\ ops[i].pc = "merge" /\ ops'[i].pc \in {"close", "done"}
    /\ ops'[i].ret # "raised"

\* complete_session of handler i returns (true, msg) in this step
CompleteReturnsTrue(i) ==
    /\ ops[i].kind = "complete" /\ ops[i].pc \in {"merge", "close"}
    /\ ops'[i].pc = "done" /\ ops'[i].ret = "true"

\* what holds of session s of channel c after every successful completion:
\* workspace and branch are gone, c is in neither table
CompletedAndGone(c, s) ==
    /\ s.worktree_path \notin worktrees'
    /\ BranchName(s.name) \notin DOMAIN branchTip'
    /\ c \notin Range(table')
    /\ \A k \in 1..Len(persisted') : persisted'[k].channel_id # c

\* C6: when complete_session(c) returns (true, msg), main has been
\* fast-forwarded to the rebased session branch, the workspace and the
\* branch of the session no longer exist, c is in neither the session table
\* nor the persisted table, and the channel has been closed iff
\* managed_channel (a close call that raised is counted as made).
C6_Completed ==
    [][\A i \in Call :
          /\ MergeSucceeds(i) =>
                LET br == BranchName(sessions[ops[i].chan].name)
                IN  mainTip \subseteq branchTip[br] /\ mainTip' = branchTip[br]
          /\ (ops[i].pc = "close" /\ ops[i].kind = "complete") => mainTip' = mainTip
          /\ CompleteReturnsTrue(i) =>
                LET c == ops[i].chan
                    s == sessions[c]
                IN  /\ CompletedAndGone(c, s)
                    /\ s.managed_channel <=> ops[i].pc = "close"
                    /\ topics' \in {topics, topics \ {c}}]_vars

\* suspend_all_sessions returns in this step
SuspendReturns == susp.pc # "returned" /\ susp'.pc = "returned"

\* C9: when suspend_all_sessions returns, every session in the table has
\* had its reader cancelled and its agent stopped, has state suspended, is
\* in the persisted table with state suspended and the agent session id it
\* holds, and its workspace and branch exist.
C9_SuspendedAll ==
    [][SuspendReturns =>
          \A c \in Range(table') :
             LET s == sessions'[c]
             IN  /\ s.task # "run" /\ (s.task = "cleanup" => s.exit = "cancel")
                 /\ ~s.agent.alive /\ s.agent.proc # "run"
                 /\ s.state = "suspended"
                 /\ \E k \in 1..Len(persisted') :
                       /\ persisted'[k].channel_id = c
                       /\ persisted'[k].state = "suspended"
                       /\ persisted'[k].agent_session_id = HeldSid(s)
                 /\ s.worktree_path \in worktrees'
                 /\ BranchName(s.name) \in DOMAIN branchTip']_vars

\* recover_sessions returns in this step
RecoverReturns == rec.pc # "returned" /\ rec'.pc = "returned"

\* the conditions of C7 on a persisted record
Eligible(r) ==
    /\ r.worktree_path \in worktrees
    /\ r.project_name = ProjectName /\ registered
    /\ r.agent_session_id # Null

\* the channel ids of a sequence of records, in order
Keys(records) == [k \in 1..Len(records) |-> records[k].key]

\* every session of the table was started from its record: resumed in the
\* persisted workspace with the persisted id, and has a reader task
StartedFromRecords ==
    \A k \in 1..Len(rec'.data) :
        LET r == rec'.data[k]
        IN  r.key \in Range(table') =>
               LET s == sessions'[r.key]
               IN  /\ s.channel_id = r.key /\ s.task = "run"
                   /\ s.agent.wd = r.worktree_path
                   /\ s.agent.resume = r.agent_session_id
                   /\ s.agent.resume # Null

\* agent.start was called once for each eligible record, in order, with the
\* persisted workspace path and agent session id
StartedOnceEach(el) ==
    rec'.started = [k \in 1..Len(el) |->
                       [chan |-> el[k].key, wd |-> el[k].worktree_path,
                        sid |-> el[k].agent_session_id]]

\* C7 as stated: when recover_sessions returns, the session table and the
\* returned list hold exactly the records whose workspace exists, whose
\* project is registered and whose agent session id is not null, under
\* their channel ids; agent.start was called exactly once for each of them
\* with the persisted workspace and id, and each has a reader task.
C7_RecoveredAsStated ==
    [][RecoverReturns =>
          LET el == SelectSeq(rec'.data, Eligible)
          IN  /\ table' = Keys(el)
              /\ rec'.recovered = table'
              /\ StartedOnceEach(el)
              /\ StartedFromRecords]_vars

\* C7 amended: as C7, for the eligible records whose agent.start did not
\* raise; a record whose agent.start raised is not inserted.
C7_Recovered ==
    [][RecoverReturns =>
          LET el == SelectSeq(rec'.data, Eligible)
              ok(r) == r.key \notin rec'.raised
          IN  /\ table' = Keys(SelectSeq(el, ok))
              /\ rec'.recovered = table'
              /\ StartedOnceEach(el)
              /\ StartedFromRecords]_vars

\* recover_sessions has returned: of two records one was recovered and the
\* other skipped
C7_Witness ==
    /\ rec.pc = "returned" /\ Len(rec.data) = 2 /\ Len(table) = 1
    /\ Len(rec.started) = 1 /\ rec.raised = {}
    /\ sessions[table[1]].agent.resume = "S1"

\* cleanup_orphan_worktrees, called after recover_sessions, returns in this
\* step
CleanupReturns == rec.pc = "returned" /\ rec'.pc = "done"

\* the workspaces of the sessions in the table after the step
ActiveAfter == {sessions'[c].worktree_path : c \in Range(table')}

StableFields ==
    {"name", "project_name", "project_path", "worktree_path", "channel_id",
     "agent_session_id", "verbose", "managed_channel", "template_name",
     "created_at"}

\* Session s and persisted record r agree on the fields fs; the agent
\* session id of a session is the one its agent reports, else the stored one.
Agree(s, r, fs) ==
    \A f \in fs :
        r[f] = IF f = "agent_session_id" THEN HeldSid(s) ELSE s[f]

\* One step of recover_sessions puts the session of record r in the table.
Reloads(r) ==
    /\ rec.pc = "start" /\ r = rec.data[rec.idx]
    /\ Len(rec'.recovered) = Len(rec.recovered) + 1

\* Every session of the table whose agent session id is captured.
Captured == {c \in Range(table) : HeldSid(sessions[c]) # Null}

\* C10 as stated: a session with a captured agent session id, written by
\* _save_sessions and rebuilt from that record, equals the original in
\* name, project name, project path, workspace path, channel id, agent
\* session id, state, verbosity, managed_channel, template name and
\* creation timestamp; and the session recover_sessions puts in the table
\* equals the record it read in all of these fields.
C10_RoundTripAsStated ==
    [][/\ \A c \in Captured :
             Agree(RecoveredSession(SavedRecord(c, sessions[c])),
                   SavedRecord(c, sessions[c]), StableFields \cup {"state"})
       /\ \A r \in Range(rec.data) :
             Reloads(r) => Agree(sessions'[r.key], r, StableFields \cup {"state"})]_vars

\* C10: the same round trip for every field but the lifecycle state: the
\* record written for a session agrees with the session in the ten other
\* fields, every save writes such a record to the file for a session whose
\* id is captured (the record written by create_session itself precedes
\* the assignment of verbose), the session rebuilt from a record agrees with the record and with the original in
\* these fields, and its state is idle whatever state was written.
C10_RoundTrip ==
    [][/\ \A c \in Captured :
             LET r == SavedRecord(c, sessions[c])
             IN  /\ Agree(sessions[c], r, StableFields)
                 /\ r.key = c /\ r.state = sessions[c].state
                 /\ Agree(RecoveredSession(r), r, StableFields)
                 /\ \A f \in StableFields \ {"agent_session_id"} :
                        RecoveredSession(r)[f] = sessions[c][f]
                 /\ RecoveredSession(r).agent_session_id = HeldSid(sessions[c])
                 /\ RecoveredSession(r).state = "idle"
       /\ persisted' # persisted =>
             \A i \in 1..Len(persisted') :
                persisted'[i].agent_session_id # Null =>
                   Agree(sessions'[persisted'[i].key], persisted'[i], StableFields)
       /\ \A r \in Range(rec.data) :
             Reloads(r) => /\ Agree(sessions'[r.key], r, StableFields)
                           /\ sessions'[r.key].state = "idle"
                           /\ sessions'[r.key].channel_id = r.key]_vars

\* A verbose session with a template, suspended by a shutdown, has been
\* reloaded in the next run: its record says suspended, the session is idle
\* and carries the options and the agent session id of the original.
C10_Witness ==
    /\ runs = 2 /\ rec.pc \in {"returned", "done"}
    /\ \E c \in Range(table) :
          /\ \E i \in 1..Len(rec.data) :
                /\ rec.data[i].key = c /\ rec.data[i].state = "suspended"
                /\ rec.data[i].verbose /\ rec.data[i].template_name = "tpl"
                /\ rec.data[i].agent_session_id = "S1"
          /\ sessions[c].state = "idle" /\ sessions[c].verbose
          /\ sessions[c].template_name = "tpl"
          /\ sessions[c].agent_session_id = "S1"

\* create_session for channel c raises out of agent.start in this step.
CreateStartFails(c) ==
    /\ creating[c] # Free /\ creating[c].pc = "agent"
    /\ creating'[c].pc = "raised"

\* C11: when create_session fails while starting the agent, the workspace
\* and the branch created for the session are removed, the channel is closed
\* if the Session Manager created it, and neither the session table nor the
\* persisted table has an entry for it.
C11_FailedCreateRolledBack ==
    [][\A c \in Chan :
          CreateStartFails(c) =>
             LET wt == WorktreePath(ProjectPath, creating[c].name)
             IN  /\ wt \notin worktrees'
                 /\ BranchName(creating[c].name) \notin DOMAIN branchTip'
                 /\ (c \in TopicChan => c \notin topics')
                 /\ ~\E d \in Range(table') : sessions'[d].worktree_path = wt
                 /\ ~\E i \in 1..Len(persisted') : persisted'[i].worktree_path = wt]_vars

\* C12: every persisted record that recover_sessions skipped (workspace
\* missing, project unregistered or agent session id absent) is, after
\* recover_sessions and cleanup_orphan_worktrees, absent from the persisted
\* table and its workspace directory no longer exists.
C12_SkippedRecordsGone ==
    [][CleanupReturns =>
          \A r \in Range(rec.data) :
             ~Eligible(r) =>
                /\ ~\E i \in 1..Len(persisted') : persisted'[i].key = r.key
                /\ r.worktree_path \notin worktrees']_vars

\* the queues of the pre-state that are subscribed to type T
Subscribed(T) == Range(subscribers[T])

\* C13: what a subscription q of type T receives is the sequence of events
\* of exact type T published while q is subscribed, in publish order: a
\* publish appends the event to every queue subscribed to its type and
\* touches no other queue; in any step a queue is left alone, loses its
\* first event to its reader, or gains at its end one event of a type it
\* is subscribed to; a new queue starts empty.
C13_SubscriptionReceivesItsType ==
    [][/\ \A ev \in BusEvents :
             PublishEvent(ev) =>
                \A q \in 1..Len(queues) :
                   queues'[q].items =
                      IF q \in Subscribed(ev.type)
                      THEN Append(queues[q].items, ev)
                      ELSE queues[q].items
       /\ Len(queues') >= Len(queues)
       /\ \A q \in 1..Len(queues') :
             IF q > Len(queues)
             THEN queues'[q].items = <<>>
             ELSE \/ queues'[q].items = queues[q].items
                  \/ queues[q].items # <<>>
                        /\ queues'[q].items = Tail(queues[q].items)
                  \/ \E ev \in BusEvents :
                        /\ q \in Subscribed(ev.type)
                        /\ queues'[q].items = Append(queues[q].items, ev)]_vars

\* Two events of one type wait in a subscribed queue in the order of their
\* publication, while a queue that has been unsubscribed is empty.
C13_Witness ==
    \E q1 \in Subscribed("AgentSystemEvent") :
        /\ queues[q1].items = <<AgentSystemEvent("web:a1", "S2"),
                                AgentSystemEvent("web:a1", "S1")>>
        /\ \E q2 \in 1..Len(queues) :
              /\ \A T \in EvType : q2 \notin Subscribed(T)
              /\ queues[q2].items = <<>>

\* C14: publish does not stop at a full queue: the event is dropped for the
\* full queue only, whose contents stay as they are, and every other queue
\* subscribed to the type of the event, before or after the full one in the
\* list, receives it; queues of other types are untouched.
C14_FullQueueDropsForItselfOnly ==
    [][\A ev \in BusEvents :
          PublishEvent(ev) =>
             /\ Len(queues') = Len(queues)
             /\ subscribers' = subscribers
             /\ \A q \in 1..Len(queues) :
                   queues'[q] =
                      IF q \in Subscribed(ev.type) /\ ~Full(queues[q])
                      THEN [queues[q] EXCEPT !.items = Append(@, ev)]
                      ELSE queues[q]]_vars

\* A full queue of size one comes first in the list of its type and still
\* holds only its old event, while the queue subscribed after it holds a
\* later event of that type.
C14_Witness ==
    \E T \in BusTypes :
        /\ Len(subscribers[T]) = 2
        /\ LET q1 == subscribers[T][1]
               q2 == subscribers[T][2]
           IN  /\ queues[q1].maxsize = 1 /\ Full(queues[q1])
               /\ queues[q2].items # <<>>
               /\ \E k \in 1..Len(queues[q2].items) :
                     queues[q2].items[k] # queues[q1].items[1]

\* subs2 is subs without the subscription of q to T and nothing else differs
OnlyRemoved(subs, subs2, T, q) ==
    /\ \A U \in EvType \ {T} : subs2[U] = subs[U]
    /\ subs2[T] = SelectSeq(subs[T], LAMBDA x : x # q)

\* unsubscribe(T, q) removes exactly q from the subscribers of T, and is a
\* no-op for a queue that is not subscribed
UnsubscribeFrame ==
    \A T \in BusTypes, q \in 0..MaxQueues :
        Unsubscribe(T, q) =>
            /\ OnlyRemoved(subscribers, subscribers', T, q)
            /\ (q \notin Subscribed(T) => subscribers' = subscribers)
            /\ queues' = queues

\* the consumer k leaves its iteration in this step: cancelled while the
\* iterator waits, or out of the loop body
LeavesIteration(k) ==
    /\ iters[k].pc \in {"waiting", "yielded"}
    /\ iters'[k].pc \in {"closed", "abandoned"}

\* C15: unsubscribe removes exactly the given queue and is a
\* no-op for an unknown one; and when a consumer of iter_events breaks out
\* or is cancelled, the subscription of its iterator is removed.
C15_Unsubscribe ==
    [][/\ UnsubscribeFrame
       /\ \A k \in Consumers :
             LeavesIteration(k) =>
                /\ iters[k].q \notin Range(subscribers'[iters[k].type])
                /\ OnlyRemoved(subscribers, subscribers', iters[k].type, iters[k].q)]_vars

(***************************************************************************)
(* Typed events of a session                                               *)
(***************************************************************************)
\* the log entry of event_bus.publish(ev)
Pub(ev) == [call |-> "publish", event |-> ev]
TextContent == PyList(<<DictBlock("text")>>)

\* C16: within one session every raw message that is read appends its
\* typed events to the end of what was published before, so events are
\* published in stream order: a system message publishes AgentSystem with
\* its session id and stores the id, an assistant message with a text
\* block publishes AgentAssistant of level INFO, and a result publishes
\* AgentResult with its cost and duration immediately followed by
\* AgentInputRequest for the same channel and leaves the state idle.
C16_EventsInStreamOrder ==
    [][\A c \in Chan, msg \in EvMsgs :
          ReaderMsg(c, msg) =>
            LET name == sessions[c].name
            IN  /\ Len(log') > Len(log)
                /\ SubSeq(log', 1, Len(log) + 1) = Append(log, Wrote(c, msg))
                /\ msg.type = "system" =>
                     /\ log' = log \o <<Wrote(c, msg),
                                        Pub(AgentSystemEvent(c, msg.session_id))>>
                     /\ sessions'[c].agent_session_id = msg.session_id
                /\ msg.type = "assistant" =>
                     /\ Len(log') = Len(log) + 2
                     /\ log'[Len(log')].call = "publish"
                     /\ log'[Len(log')].event.type = "AgentAssistantEvent"
                     /\ log'[Len(log')].event.channel_id = c
                /\ msg = [type |-> "assistant", content |-> TextContent] =>
                     log' = log \o <<Wrote(c, msg),
                                      Pub(AgentAssistantEvent(c, TextContent,
                                          name, "INFO", sessions[c].verbose))>>
                /\ msg.type = "result" =>
                     /\ log' = log \o
                          <<Wrote(c, msg),
                            Pub(AgentResultEvent(c,
                                    MsgGet(msg, "total_cost_usd", 0),
                                    MsgGet(msg, "duration_ms", 0))),
                            Pub(AgentInputRequestEvent(c, name))>>
                     /\ sessions'[c].state = "idle"
      ]_vars

\* the stream system(S1), assistant(text), result(0.01, 1234) has been read
WriteCalls == SelectSeq(log, LAMBDA e : e.call = "write_raw")
PublishCalls == SelectSeq(log, LAMBDA e : e.call = "publish")
C16_Witness ==
    \E c \in Chan :
        /\ Live(c)
        /\ \E v \in BOOLEAN :
             PublishCalls = <<Pub(AgentSystemEvent(c, "S1")),
                     Pub(AgentAssistantEvent(c, TextContent, sessions[c].name,
                                             "INFO", v)),
                     Pub(AgentResultEvent(c, 1, 1234)),
                     Pub(AgentInputRequestEvent(c, sessions[c].name))>>
        /\ WriteCalls =
              <<Wrote(c, Raw("system", "S1")),
                Wrote(c, [type |-> "assistant", content |-> TextContent]),
                Wrote(c, [type |-> "result", total_cost_usd |-> 1,
                          duration_ms |-> 1234])>>
        /\ sessions[c].state = "idle"
        /\ sessions[c].agent_session_id = "S1"

\* tools whose permission requests the auto-approval policy answers itself
AutoApproved == {"ExitPlanMode"}
\* raw permission requests that name their id and their tool
NamedRequests ==
    {m \in EvMsgs : m.type = "permission_request"
                    /\ {"id", "tool_name"} \subseteq DOMAIN m}

C18_AutoApproved ==
    [][\A c \in Chan, msg \in NamedRequests :
          ReaderMsg(c, msg) /\ msg.tool_name \in AutoApproved =>
              /\ log' = log \o <<Wrote(c, msg), Responded(c, msg.id, TRUE)>>
              /\ sessions'[c].state = "running"
      ]_vars

\* C19: every raw file_output message that is read publishes exactly one
\* FileReady event on the session's channel with the message's file_path
\* and file_name, and leaves the session's state as it was.
C19_FileOutputPublishesFileReady ==
    [][\A c \in Chan, msg \in EvMsgs :
          ReaderMsg(c, msg) /\ msg.type = "file_output" =>
              /\ log' = log \o <<Wrote(c, msg),
                                 Pub([type |-> "FileReadyEvent",
                                      channel_id |-> c,
                                      file_path |-> msg.file_path,
                                      file_name |-> msg.file_name,
                                      level |-> "INFO"])>>
              /\ sessions'[c].state = sessions[c].state
      ]_vars

(***************************************************************************)
(* The classifier of assistant content                                     *)
(***************************************************************************)
\* the content is a list whose i-th block is a dict of type text
TextAt(content, i) ==
    /\ content.py = "list" /\ i \in 1..Len(content.val)
    /\ content.val[i].py = "dict"
    /\ "type" \in DOMAIN content.val[i]
    /\ content.val[i].type = "text"

\* C20: the level given to assistant content is INFO if and only if the
\* content is a string or a list with a block of type text at some
\* position, and PROGRESS otherwise (only tool_use / tool_result blocks,
\* blocks that are no text dicts, or the empty list).
C20_ClassifierLevel ==
    \A q \in 1..Len(queues) : \A i \in 1..Len(queues[q].items) :
        LET ev == queues[q].items[i]
            content == ev.content_blocks
        IN  ev.type = "AgentAssistantEvent" =>
              /\ ev.level \in {"INFO", "PROGRESS"}
              /\ ev.level = "INFO" <=>
                    \/ content.py = "str"
                    \/ \E k \in 1..MaxBlocks : TextAt(content, k)

\* classified INFO with the text block last, behind a tool_use block
C20_Witness ==
    \E q \in 1..Len(queues) : \E i \in 1..Len(queues[q].items) :
        LET ev == queues[q].items[i]
        IN  /\ ev.type = "AgentAssistantEvent" /\ ev.level = "INFO"
            /\ ev.content_blocks.py = "list"
            /\ Len(ev.content_blocks.val) = MaxBlocks
            /\ ~TextAt(ev.content_blocks, 1)
            /\ TextAt(ev.content_blocks, MaxBlocks)

(***************************************************************************)
(* Names, channels and derived paths                                       *)
(***************************************************************************)
\* C21: no two sessions in the session table have the same name, hence
\* none share a workspace path or a branch, and a create_session call
\* never removes the workspace of another session in the table.
C21_UniqueNames ==
    [][/\ \A c1, c2 \in Range(table') :
            c1 # c2 =>
              /\ sessions'[c1].name # sessions'[c2].name
              /\ sessions'[c1].worktree_path # sessions'[c2].worktree_path
       /\ \A c \in Chan, ts \in Clock :
            CreateStart(c, FALSE, Null, ts) =>
              \A d \in Range(table) :
                 sessions[d].worktree_path \in worktrees
                    => sessions[d].worktree_path \in worktrees'
      ]_vars

\* C22: in every reachable state the sessions in the session table are
\* stored under pairwise distinct channel ids, and the channel_id field of
\* each equals the key under which it is stored.
C22_ChannelUnique ==
    /\ \A i, j \in 1..Len(table) : i # j => table[i] # table[j]
    /\ \A c \in Range(table) : sessions[c].channel_id = c

\* two sessions of the first run were both recovered by the second
C22_Witness ==
    /\ runs = 2 /\ rec.pc \in {"returned", "done"}
    /\ Len(table) = 2 /\ Len(rec.recovered) = 2
    /\ sessions[table[1]].channel_id # sessions[table[2]].channel_id

\* the session an operation of the chat handler works on
OpSession(i) == sessions[ops[i].chan]
\* the branches whose tip, or whose existence, differs after the step
BranchesTouched ==
    {b \in DOMAIN branchTip \cup DOMAIN branchTip' :
        \/ b \notin DOMAIN branchTip \/ b \notin DOMAIN branchTip'
        \/ branchTip[b] # branchTip'[b]}

\* C23: every session in the table, created or recovered, has the
\* workspace <project_path>/.afk-worktrees/<name>; create, stop and
\* complete work on the branch afk/<name> and on that workspace only; and
\* a session's name and workspace path never change while it is in the
\* table, nor between its persisted record and its recovery.
C23_NameDerivation ==
    [][/\ \A c \in Range(table') :
            sessions'[c].worktree_path =
                <<sessions'[c].project_path, ".afk-worktrees", sessions'[c].name>>
       /\ \A c \in Range(table) \cap Range(table') :
            /\ sessions'[c].name = sessions[c].name
            /\ sessions'[c].worktree_path = sessions[c].worktree_path
       /\ \A c \in Range(table') \ Range(table) :
            phase = "recover" =>
               \E k \in 1..Len(rec.data) :
                  /\ rec.data[k].key = c
                  /\ rec.data[k].name = sessions'[c].name
                  /\ rec.data[k].worktree_path = sessions'[c].worktree_path
       /\ \A c \in Chan :
            CreateFinish(c, TRUE) /\ c \in Range(table') =>
               /\ <<"afk", sessions'[c].name>> \in DOMAIN branchTip
               /\ sessions'[c].worktree_path \in worktrees
       /\ \A c \in Chan, ts \in Clock :
            CreateStart(c, FALSE, Null, ts) =>
               /\ BranchesTouched \subseteq {<<"afk", creating'[c].name>>}
               /\ worktrees' \ worktrees \subseteq
                     {<<ProjectPath, ".afk-worktrees", creating'[c].name>>}
       /\ (\/ StopWorktree("chat") \/ CompleteMerge("chat")
           \/ \E ch \in BOOLEAN, mv \in BOOLEAN, ok \in BOOLEAN :
                  CompleteRebase("chat", ch, mv, ok)) =>
               /\ BranchesTouched \subseteq {<<"afk", OpSession("chat").name>>}
               /\ worktrees \ worktrees' \subseteq
                     {<<OpSession("chat").project_path, ".afk-worktrees",
                        OpSession("chat").name>>}
      ]_vars

\* a recovered session was stopped: its workspace and its branch are gone
C23_Witness ==
    /\ runs = 2 /\ rec.recovered # <<>>
    /\ ops["chat"].kind = "stop" /\ ops["chat"].pc = "del"
    /\ OpSession("chat").worktree_path \notin worktrees
    /\ <<"afk", OpSession("chat").name>> \notin DOMAIN branchTip

(***************************************************************************)
(* send_message                                                            *)
(***************************************************************************)
\* C24: send_message(c, text) returns false, leaves every session as it
\* was, adds nothing to the history and sends nothing to an agent when c
\* has no session or its agent is not alive; otherwise it hands the text
\* to the agent of c once, sets the state to running, appends one user
\* message with the text to the history of c and returns true.
C24_SendMessage ==
    [][\A c \in Chan, text \in Texts :
          CmdSendMessage(c, text) =>
            IF c \in Range(table) /\ IsAlive(sessions[c].agent)
            THEN /\ log' = log \o
                      <<[call |-> "send_message", channel_id |-> c,
                         text |-> text],
                        [call |-> "append", channel_id |-> c,
                         role |-> "user", text |-> text],
                        [call |-> "return", name |-> "cmd_send_message",
                         channel_id |-> c, value |-> TRUE]>>
                 /\ sessions'[c].state = "running"
            ELSE /\ log' = log \o
                      <<[call |-> "return", name |-> "cmd_send_message",
                         channel_id |-> c, value |-> FALSE]>>
                 /\ sessions' = sessions
      ]_vars

\* a text was accepted and, after the agent had exited, another refused
C24_Witness ==
    \E c \in Chan, i \in 1..MaxLog, j \in 1..MaxLog :
        /\ i < j /\ j <= Len(log)
        /\ log[i] = Returned("cmd_send_message", c, TRUE)
        /\ log[j] = Returned("cmd_send_message", c, FALSE)
        /\ c \in Range(table) /\ ~IsAlive(sessions[c].agent)

(***************************************************************************)
(* C25: every long-lived child process the supervisor has spawned and not  *)
(* yet stopped is in the tracker's set: the process of every session's     *)
(* agent while it runs, and the cloudflared of the redirect tunnel while   *)
(* it runs; these are the processes the exit hook sends SIGTERM to.        *)
(***************************************************************************)
C25_ChildrenTracked ==
    /\ \A c \in Chan :
          Live(c) /\ sessions[c].agent.proc = "run"
              => AgentPid(c) \in tracker.pids
    /\ tracker.cloudflared \in tracker.procs
           => tracker.cloudflared \in tracker.pids

\* the pids a PID file lists: its lines that int() accepts after strip()
Listed(lines) ==
    {IntOf(Strip(lines[i])) : i \in {j \in 1..Len(lines) : IsInt(Strip(lines[j]))}}

(***************************************************************************)
(* C26: the start of a supervisor process after one that crashed runs      *)
(* cleanup_stale_pids before any child is tracked: when the PID file is    *)
(* present, one SIGTERM has                                                *)
(* been sent to every pid the file lists and to no other, whatever         *)
(* unparsable lines and dead pids the file holds, the file is gone and the *)
(* new process's tracked set is as it was, empty; when no file is present  *)
(* nothing is signalled.                                                   *)
(***************************************************************************)
C26_StartupCleansStalePids ==
    [][Restart /\ susp.pc = "crashed" =>
          /\ tracker'.pids = {}
          /\ ~tracker'.file.exists
          /\ \A p \in Pids :
                tracker'.kills[p] =
                    IF tracker.file.exists /\ p \in Listed(tracker.file.lines)
                    THEN Bump(tracker.kills[p]) ELSE tracker.kills[p]]_vars

\* the PID file exists, every line of it is a pid, and the pids are the
\* ones of the tracked set
InSync(t) ==
    /\ t.file.exists
    /\ \A i \in 1..Len(t.file.lines) : IsInt(Strip(t.file.lines[i]))
    /\ Listed(t.file.lines) = t.pids

Matches(mem, name) == {i \in 1..Len(mem) : Lower(mem[i].name) = Lower(name)}

(***************************************************************************)
(* C28: no two registered project names are equal ignoring case; add of a  *)
(* name that is registered ignoring case returns False and leaves the      *)
(* registry and projects.json as they were; remove of such a name removes  *)
(* the one entry it matches and returns True; and get of a name returns    *)
(* the one entry that matches it ignoring case.                            *)
(***************************************************************************)
C28_NamesUniqueIgnoringCase ==
    [][/\ \A i, j \in 1..Len(projects'.mem) :
             Lower(projects'.mem[i].name) = Lower(projects'.mem[j].name) => i = j
       /\ \A name \in Names :
            /\ (\E path \in Paths : ProjectAdd(name, path))
                   /\ Matches(projects.mem, name) # {}
               => /\ projects'.mem = projects.mem
                  /\ projects'.file = projects.file
                  /\ projects'.ret = Return("add", name, "False")
            /\ ProjectRemove(name) /\ Matches(projects.mem, name) # {}
               => /\ projects'.mem =
                         SelectSeq(projects.mem,
                                   LAMBDA e : Lower(e.name) # Lower(name))
                  /\ Len(projects'.mem) = Len(projects.mem) - 1
                  /\ projects'.ret = Return("remove", name, "True")
            /\ \A i \in Matches(projects'.mem, name) :
                  ProjectGet(projects'.mem, name) = Found(projects'.mem[i])]_vars

\* App is registered, lib was registered after it, and the last call, add
\* of app, was refused
C28_Witness ==
    /\ KeysOf(projects.mem) = <<"App", "lib">>
    /\ projects.file = ProjectsFile(projects.mem)
    /\ projects.ret = Return("add", "app", "False")

\* the step in which channel c gets its record in sessions.json
Persists(c) == c \notin Range(Keys(persisted)) /\ c \in Range(Keys(persisted'))

(***************************************************************************)
(* C29: create_session creates the workspace, then the channel (only when  *)
(* no channel id was supplied), then starts the agent, then inserts the    *)
(* session and saves the table, then starts the reader task.  A call whose *)
(* create_worktree fails creates no channel and no record and goes no      *)
(* further; a call goes on only with its workspace created; a channel is   *)
(* created only by a call that has got past create_worktree and has no     *)
(* session yet; a record is written only by a call that is past the        *)
(* channel creation, whose workspace is there and whose agent has started, *)
(* in the step that inserts the session, and the session has no reader     *)
(* task before that step.                                                  *)
(***************************************************************************)
C29_CreateOrder ==
    [][\A c \in Chan :
          /\ (\E ts \in Clock : CreateStart(c, FALSE, Null, ts)) =>
                /\ topics' = topics /\ persisted' = persisted /\ table' = table
                /\ sessions' = sessions
                /\ IF creating'[c].pc = "raised"
                   THEN WorktreePath(ProjectPath, creating'[c].name) \notin worktrees'
                   ELSE WorktreePath(ProjectPath, creating'[c].name) \in worktrees'
          /\ (c \notin topics /\ c \in topics') =>
                /\ c \in TopicChan
                /\ creating[c] # Free /\ creating[c].pc = "channel"
                /\ ~Live(c) /\ sessions'[c] = NoSession
                /\ persisted' = persisted /\ table' = table
          /\ Persists(c) =>
                /\ creating[c] # Free /\ creating[c].pc = "agent"
                /\ WorktreePath(ProjectPath, creating[c].name) \in worktrees
                /\ c \in TopicChan => c \in topics
                /\ ~Live(c)
                /\ InTable(c)' /\ IsAlive(sessions'[c].agent)
                /\ sessions'[c].task = "run"
                /\ \E i \in 1..Len(persisted') :
                      /\ persisted'[i].key = c
                      /\ persisted'[i].worktree_path =
                             WorktreePath(ProjectPath, creating[c].name)
          /\ (~Live(c) /\ Live(c)') => Persists(c)]_vars

\* the call for topic channel 101 failed in create_worktree (the branch
\* afk/proj-1 was there) and no topic was made; the call for web:a1 made its
\* session, which is saved and has its reader task
C29_Witness ==
    /\ creating["101"] # Free /\ creating["101"].pc = "raised"
    /\ creating["101"].name = SessionName(ProjectName, 1)
    /\ "101" \notin topics
    /\ Keys(persisted) = <<"web:a1">>
    /\ Live("web:a1") /\ sessions["web:a1"].task = "run"

(***************************************************************************)
(* C30: while the read loop of a session waits for the next agent message, *)
(* sessions.json agrees with the session table: the same channel ids, and  *)
(* for each of them the agent session id and the lifecycle state that      *)
(* saving the in-memory session now would write.                           *)
(***************************************************************************)
C30_PersistedAgrees ==
    phase # "down" /\ (\E c \in Range(table) : sessions[c].task = "run") =>
        /\ Keys(persisted) = table
        /\ \A i \in 1..Len(persisted) :
              LET c == persisted[i].key
              IN  InTable(c) =>
                     /\ persisted[i].agent_session_id =
                            SavedRecord(c, sessions[c]).agent_session_id
                     /\ persisted[i].state = sessions[c].state

\* handler i is suspended in a git command on the session's workspace:
\* remove_worktree (stop_session), commit_worktree_changes or the rebase
\* (complete_session), or the removal of the worktree with the merge
GitPending(i) == ops[i] # Free /\ ops[i].pc \in {"rmwt", "rebase", "merge"}

(***************************************************************************)
(* C31: while stop_session or complete_session commits in, rebases in or   *)
(* removes the workspace of a session, the session's agent is not alive    *)
(* and its reader task is not reading: the agent was stopped and the       *)
(* reader cancelled before, and neither is started again before the git    *)
(* command has finished.                                                   *)
(***************************************************************************)
C31_WorkspaceOpsAfterAgentStop ==
    \A i \in Call :
        GitPending(i) /\ phase # "down" /\ Live(ops[i].chan) =>
            /\ ~IsAlive(sessions[ops[i].chan].agent)
            /\ sessions[ops[i].chan].task # "run"

\* the commit that commit_worktree_changes makes in the session's worktree
SessionCommit(c) == sessions[c].name

StopRank(pc) ==
    CASE pc = "cleanup" -> 1 [] pc = "stop" -> 2 [] pc = "rmwt" -> 3
      [] pc = "del" -> 4 [] pc = "close" -> 5 [] OTHER -> 6

RacedCalls ==
    /\ \A i \in Call : ops[i] # Free /\ ops[i].pc = "done"
    /\ ops["chat"].chan = ops["web"].chan
    /\ \E i \in Call : ops[i].ret = "true"

(***************************************************************************)
(* C34: when stop_session(c) or complete_session(c) is called while        *)
(* another such call for the same session is suspended, neither call       *)
(* raises, at most one reports success, and when both have ended c is in   *)
(* neither the session table nor the persisted table.                      *)
(***************************************************************************)
C34_RacingStopComplete ==
    /\ \A i \in Call : ops[i] # Free => ops[i].ret # "raised"
    /\ ~(\A i \in Call : ops[i] # Free /\ ops[i].ret = "true")
    /\ RacedCalls =>
          /\ ~InTable(ops["chat"].chan)
          /\ ops["chat"].chan \notin Range(Keys(persisted))

(***************************************************************************)
(* C35: every agent that was started and not stopped, and every reader     *)
(* task that was created and not cancelled, belongs to a session of the    *)
(* session table.                                                          *)
(***************************************************************************)
C35_NoAgentLeaked ==
    \A c \in Chan :
        Live(c) /\ phase # "down" =>
            /\ IsAlive(sessions[c].agent) => InTable(c)
            /\ sessions[c].task = "run" => InTable(c)

\* the reader of c was cancelled by suspend_all_sessions: the loop has
\* visited c, the reader has not yet run its handler, and no stop_session
\* or complete_session call is working on c
CancelledBySuspend(c) ==
    /\ phase = "suspend" /\ c \in susp.seen
    /\ Live(c) /\ sessions[c].task = "cancelling"
    /\ \A i \in Call : ops[i] = Free \/ ops[i].pc = "done" \/ ops[i].chan # c

(***************************************************************************)
(* C36: a reader cancelled by suspend_all_sessions exits without the       *)
(* unexpected-exit path: the session's state is not set to stopped, the    *)
(* cleanup callbacks are not run again and no AgentStopped event is        *)
(* published.                                                              *)
(***************************************************************************)
C36_SuspendIsSilent ==
    [][\A c \in Chan :
          CancelledBySuspend(c) /\ ReaderCancelled(c) =>
              /\ stoppedEv'[c] = stoppedEv[c]
              /\ cleanupRuns'[c] = cleanupRuns[c]
              /\ sessions'[c].state # "stopped"]_vars

\* the read loop of c ended by itself (the agent's output ended) while no
\* call was working on the session: the finally block has set the state to
\* stopped and published AgentStopped, and the reader has not been
\* replaced since
ExitedUnexpectedly(c) ==
    /\ Live(c) /\ sessions[c].exit = "crash" /\ sessions[c].task = "done"
    /\ stoppedEv[c] > 0

(***************************************************************************)
(* C37: a session whose read loop exited unexpectedly is not resumed: no   *)
(* step of the running supervisor gives it a live agent or a reading task, *)
(* and when the next supervisor process starts, its persisted record does  *)
(* not pass the tests of recover_sessions, so that no agent is started for *)
(* it.                                                                     *)
(***************************************************************************)
C37_StoppedStaysStopped ==
    [][\A c \in Chan :
          ExitedUnexpectedly(c) =>
              /\ sessions'[c] # NoSession =>
                    /\ ~IsAlive(sessions'[c].agent)
                    /\ sessions'[c].task # "run"
              /\ Restart =>
                    \A k \in 1..Len(persisted) :
                        persisted[k].key = c /\ persisted[k].name = sessions[c].name
                            => ~Recoverable(persisted[k])]_vars

(***************************************************************************)
(* C38: a replacement agent of an existing session - started after a       *)
(* failed complete_session or by recover_sessions - is built by the        *)
(* registry entry that built the session's agent when the session was      *)
(* created.                                                                *)
(***************************************************************************)
C38_ReplacementKeepsAgentEntry ==
    [][/\ \A i \in Call :
            Running(i, "complete", "rebase") /\ ops'[i].pc = "restart" =>
                sessions'[ops[i].chan].agent.entry
                    = sessions[ops[i].chan].agent.entry
       /\ RecoverStarted(TRUE) =>
            LET r == rec.data[rec.idx]
            IN  sessions'[r.key].agent.entry
                    = CreateAgent(TemplateAgent(r.template_name)).entry]_vars

(***************************************************************************)
(* C40: when RedirectTunnel.stop() has returned, the pid of the            *)
(* cloudflared child that start() tracked is not in the tracker's set,     *)
(* whether the child was running or had exited by itself.                  *)
(***************************************************************************)
C40_StopUntracksCloudflared ==
    [][RedirectStop => tracker.cloudflared \notin tracker'.pids]_vars

\* events of one turn lie between events of another turn
Interleaved(q) ==
    \E a, b, c \in 1..Len(q) :
        a < b /\ b < c /\ q[a].turn = q[c].turn /\ q[b].turn # q[a].turn

(***************************************************************************)
(* C39: a Codex agent has at most one child running; when a later child    *)
(* exists, every earlier child has exited and all of its output has been   *)
(* read into the event queue; and the events of one turn are contiguous    *)
(* in the queue.                                                           *)
(***************************************************************************)
C39_OneChildAtATime ==
    /\ Cardinality(codex.running) <= 1
    /\ \A p, q \in 1..Len(codex.out) :
          p < q => p \notin codex.running /\ codex.out[p] = 0
    /\ ~Interleaved(codex.event_queue)
====
